---- MODULE Spec2Model ----
(***************************************************************************)
(* A model of the data-cleaning pipeline of the student monitoring system  *)
(* (CWPreprocessing.py / DAFunction.py): column-name normalisation, grade  *)
(* coercion, de-duplication by ResearchId, column dropping and grade       *)
(* standardisation; of the analysis operations built on the stored tables  *)
(* (studentPerformance.py, underperformingStudent.py,                      *)
(* hardworkingStudents.py); and of the top-level runs that store the       *)
(* tables and open and close the database connection.                      *)
(*                                                                         *)
(* Strings are sequences of one-character strings, so that str.split,      *)
(* str.title, str.replace, `in` and str.startswith are computed the way    *)
(* Python computes them.  A table (pandas DataFrame) is a record           *)
(*   [cols |-> sequence of column names, rows |-> sequence of rows]        *)
(* and a row is [idx |-> the pandas index label, cells |-> one cell per    *)
(* column position].  A cell is [k, v, d, s]: k = "num" is the number v/d, *)
(* k = "nan" is NaN/None, k = "str" is the text s, k = "pinf"/"ninf" are   *)
(* the float infinities.                                                   *)
(***************************************************************************)
EXTENDS Integers, Sequences, FiniteSets, TLC

VARIABLES
    op,      \* which operation this run calls
    column,  \* the argument of clean_column_name
    input,   \* the caller's table as it was when the call was made
    df,      \* the caller's table object (operations with inplace=True change it)
    columns_to_drop,  \* the second argument of drop_unnecessary_columns
    ret,     \* what the call returned: [st |-> "none" | "ok" | "error", ...]
    pc,      \* "call" before the operation ran, "done" after
    store,   \* the database: the table stored under each name
    conns,   \* the database connections that are open
    run      \* the top-level run: its program, position and bookkeeping

callVars == <<op, column, input, df, columns_to_drop, ret, pc>>
storageVars == <<store, conns, run>>
vars == <<op, column, input, df, columns_to_drop, ret, pc, store, conns, run>>

-----------------------------------------------------------------------------
(* Bounds of the model *)

MaxNameLen == 3     \* longest enumerated column name
MaxRows == 2        \* most rows of an enumerated table
MaxRuns == 2        \* most runs of a program one after the other

-----------------------------------------------------------------------------
(* Characters and Python's str methods *)

LowerChars == << "a","b","c","d","e","f","g","h","i","j","k","l","m",
                 "n","o","p","q","r","s","t","u","v","w","x","y","z" >>
UpperChars == << "A","B","C","D","E","F","G","H","I","J","K","L","M",
                 "N","O","P","Q","R","S","T","U","V","W","X","Y","Z" >>
Digits == << "0","1","2","3","4","5","6","7","8","9" >>

LowerSet == {LowerChars[i] : i \in 1..Len(LowerChars)}
UpperSet == {UpperChars[i] : i \in 1..Len(UpperChars)}
DigitSet == {Digits[i] : i \in 1..Len(Digits)}

\* str.upper and str.lower of one letter, as tables
UpperOf ==
    [c \in LowerSet |-> UpperChars[CHOOSE i \in 1..Len(LowerChars) : LowerChars[i] = c]]
LowerOf ==
    [c \in UpperSet |-> LowerChars[CHOOSE i \in 1..Len(UpperChars) : UpperChars[i] = c]]

IsLower(c) == c \in LowerSet
IsUpper(c) == c \in UpperSet
IsCased(c) == IsLower(c) \/ IsUpper(c)
IsDigit(c) == c \in DigitSet

ToUpper(c) == IF IsLower(c) THEN UpperOf[c] ELSE c

ToLower(c) == IF IsUpper(c) THEN LowerOf[c] ELSE c

\* str.title(): a cased character is upper-cased when the character before
\* it is not cased (or there is none) and lower-cased when it is.
Title(s) ==
    [i \in 1..Len(s) |->
        IF i > 1 /\ IsCased(s[i - 1]) THEN ToLower(s[i]) ELSE ToUpper(s[i])]

\* s.split(sep)[0]: the part of s before the first sep (all of s without one).
SplitFirst(s, sep) ==
    IF \E i \in 1..Len(s) : s[i] = sep
    THEN SubSeq(s, 1, (CHOOSE i \in 1..Len(s) :
                          /\ s[i] = sep
                          /\ \A j \in 1..(i - 1) : s[j] # sep) - 1)
    ELSE s

\* s.replace(c, ''): s without the characters equal to c.
RemoveChar(s, c) ==
    LET keep(x) == x # c IN SelectSeq(s, keep)

\* sub in s
Contains(s, sub) ==
    \E i \in 0..(Len(s) - Len(sub)) : SubSeq(s, i + 1, i + Len(sub)) = sub

\* s.startswith(pre)
StartsWith(s, pre) ==
    Len(s) >= Len(pre) /\ SubSeq(s, 1, Len(pre)) = pre

-----------------------------------------------------------------------------
(* The string literals of the code *)

ResearchIdName == << "R","e","s","e","a","r","c","h","I","d" >>
GradeName == << "G","r","a","d","e" >>
StateName == << "S","t","a","t","e" >>
TimeTakenName == << "T","i","m","e","T","a","k","e","n" >>
QPrefix == << "Q" >>
Dash == << "-" >>

-----------------------------------------------------------------------------
(* clean_column_name *)

CleanColumnNameNoTitle(col) ==
    IF col = ResearchIdName
    THEN col
    ELSE RemoveChar(SplitFirst(col, "/"), " ")

CleanColumnNameSplitOnSpace(col) ==
    IF col = ResearchIdName
    THEN col
    ELSE RemoveChar(Title(SplitFirst(col, " ")), " ")

clean_column_name(col) ==
    IF col = ResearchIdName
    THEN col
    ELSE RemoveChar(Title(SplitFirst(col, "/")), " ")

\* [clean_column_name(col) for col in df.columns]
clean_column_names(cols) ==
    [j \in 1..Len(cols) |-> clean_column_name(cols[j])]

-----------------------------------------------------------------------------
(* Cells *)

Num(n) == [k |-> "num", v |-> n, d |-> 1, s |-> << >>]
NaN == [k |-> "nan", v |-> 0, d |-> 1, s |-> << >>]
Str(t) == [k |-> "str", v |-> 0, d |-> 1, s |-> t]
PInf == [k |-> "pinf", v |-> 0, d |-> 1, s |-> << >>]
NInf == [k |-> "ninf", v |-> 0, d |-> 1, s |-> << >>]

IsNum(c) == c.k = "num"
IsNull(c) == c.k = "nan"

DigitValue(c) == (CHOOSE i \in 1..Len(Digits) : Digits[i] = c) - 1

RECURSIVE ParseDigits(_)
ParseDigits(t) ==
    IF Len(t) = 0
    THEN 0
    ELSE 10 * ParseDigits(SubSeq(t, 1, Len(t) - 1)) + DigitValue(t[Len(t)])

\* series.replace('-', np.nan), one cell: only a cell that is exactly '-'.
ReplaceDash(c) ==
    IF c.k = "str" /\ c.s = Dash THEN NaN ELSE c

\* pd.to_numeric(series, errors='coerce'), one cell: a number stays, a text
\* of decimal digits is parsed, any other text and a missing value give NaN.
ToNumeric(c) ==
    IF c.k = "str"
    THEN (IF Len(c.s) > 0 /\ \A i \in 1..Len(c.s) : IsDigit(c.s[i])
          THEN Num(ParseDigits(c.s))
          ELSE NaN)
    ELSE c

\* series.fillna(0.0), one cell
FillNa(c) == IF IsNull(c) THEN Num(0) ELSE c

CoerceCellNoFill(c) == ToNumeric(ReplaceDash(c))

\* the body of the loop over grade_q_columns, one cell
CoerceCell(c) == FillNa(ToNumeric(ReplaceDash(c)))

\* the order of two numeric cells (v/d with d > 0)
Less(a, b) == a.v * b.d < b.v * a.d

-----------------------------------------------------------------------------
(* Tables *)

ColIndex(cols, name) ==
    IF \E j \in 1..Len(cols) : cols[j] = name
    THEN CHOOSE j \in 1..Len(cols) :
            cols[j] = name /\ \A i \in 1..(j - 1) : cols[i] # name
    ELSE 0

HasColumn(cols, name) == ColIndex(cols, name) # 0

\* the cell of row r in the column called name
CellOf(t, r, name) == r.cells[ColIndex(t.cols, name)]

IsGradeOnlyColumn(name) == Contains(name, GradeName)

\* grade_q_columns: the positions whose name has 'Grade' in it or starts with 'Q'
IsGradeQColumn(name) == Contains(name, GradeName) \/ StartsWith(name, QPrefix)

EmptyTable == [cols |-> << >>, rows |-> << >>]

\* the sequence s restricted to the positions that satisfy keep, in order
RECURSIVE Positions(_, _, _)
Positions(n, i, keep) ==
    IF i > n
    THEN << >>
    ELSE (IF i \in keep THEN << i >> ELSE << >>) \o Positions(n, i + 1, keep)

Pick(s, keep) ==
    LET ps == Positions(Len(s), 1, keep)
    IN [i \in 1..Len(ps) |-> s[ps[i]]]

-----------------------------------------------------------------------------
(* drop_duplicate_research_ids *)

IsAscendingOrder(rows, g, p) ==
    \A i, j \in 1..Len(rows) :
        i < j =>
            LET a == rows[p[i]].cells[g]
                b == rows[p[j]].cells[g]
            IN /\ ~(IsNull(a) /\ ~IsNull(b))
               /\ (~IsNull(a) /\ ~IsNull(b)) => ~Less(b, a)
               /\ (IsNull(a) /\ IsNull(b)) => p[i] < p[j]

\* df.sort_values(by='Grade', ascending=False): p is an order the sort may
\* produce.  NaN grades go last (na_position='last') in their original
\* order; the other rows are in non-increasing order of Grade.  The default
\* kind is 'quicksort', which is not stable: equal grades may come out in
\* any order.
IsSortOrder(rows, g, p) ==
    \A i, j \in 1..Len(rows) :
        i < j =>
            LET a == rows[p[i]].cells[g]
                b == rows[p[j]].cells[g]
            IN /\ ~(IsNull(a) /\ ~IsNull(b))
               /\ (~IsNull(a) /\ ~IsNull(b)) => ~Less(a, b)
               /\ (IsNull(a) /\ IsNull(b)) => p[i] < p[j]

SortOrders(rows, g) ==
    {p \in Permutations(1..Len(rows)) : IsSortOrder(rows, g, p)}

Reorder(rows, p) == [i \in 1..Len(rows) |-> rows[p[i]]]

\* df.drop_duplicates(subset=['ResearchId'], keep='first'): a row stays when
\* no row before it has the same ResearchId (missing ids count as equal).
DropDuplicatesKeepLast(rows, c) ==
    Pick(rows, {i \in 1..Len(rows) :
                   \A j \in (i + 1)..Len(rows) : rows[j].cells[c] # rows[i].cells[c]})

DropDuplicatesKeepNone(rows, c) ==
    Pick(rows, {i \in 1..Len(rows) :
                   \A j \in 1..Len(rows) : j # i => rows[j].cells[c] # rows[i].cells[c]})

DropDuplicates(rows, c) ==
    Pick(rows, {i \in 1..Len(rows) :
                   \A j \in 1..(i - 1) : rows[j].cells[c] # rows[i].cells[c]})

DropDuplicateResearchIdsIfPresent(t) ==
    IF ~HasColumn(t.cols, GradeName) \/ ~HasColumn(t.cols, ResearchIdName)
    THEN {[st |-> "ok", t |-> t]}
    ELSE {[st |-> "ok",
           t |-> [t EXCEPT !.rows =
                    DropDuplicates(Reorder(t.rows, p), ColIndex(t.cols, ResearchIdName))]]
          : p \in SortOrders(t.rows, ColIndex(t.cols, GradeName))}

\* The outcomes of drop_duplicate_research_ids(t): [st, t] with st = "ok" and
\* the table as the in-place operations leave it, or st = "error" (KeyError)
\* and the table as it is when the error is raised.
drop_duplicate_research_ids(t) ==
    IF ~HasColumn(t.cols, GradeName)
    THEN {[st |-> "error", t |-> t]}
    ELSE {LET sorted == Reorder(t.rows, p)
          IN IF ~HasColumn(t.cols, ResearchIdName)
             THEN [st |-> "error", t |-> [t EXCEPT !.rows = sorted]]
             ELSE [st |-> "ok",
                   t |-> [t EXCEPT !.rows =
                            DropDuplicates(sorted, ColIndex(t.cols, ResearchIdName))]]
          : p \in SortOrders(t.rows, ColIndex(t.cols, GradeName))}

-----------------------------------------------------------------------------
(* drop_unnecessary_columns *)

SeqToSet(s) == {s[i] : i \in 1..Len(s)}

DropFirstListedOnly(t, to_drop) ==
    LET keep == {j \in 1..Len(t.cols) :
                    Len(to_drop) = 0 \/ t.cols[j] # to_drop[1]}
    IN [cols |-> Pick(t.cols, keep),
        rows |-> [i \in 1..Len(t.rows) |->
                     [t.rows[i] EXCEPT !.cells = Pick(t.rows[i].cells, keep)]]]

\* for col in columns_to_drop: if col in df.columns: df.drop(col, axis=1)
drop_unnecessary_columns(t, to_drop) ==
    LET keep == {j \in 1..Len(t.cols) : t.cols[j] \notin SeqToSet(to_drop)}
    IN [cols |-> Pick(t.cols, keep),
        rows |-> [i \in 1..Len(t.rows) |->
                     [t.rows[i] EXCEPT !.cells = Pick(t.rows[i].cells, keep)]]]

-----------------------------------------------------------------------------
(* process_dataframe *)

CoerceAllColumns(t) ==
    [t EXCEPT !.rows =
        [i \in 1..Len(t.rows) |->
            [t.rows[i] EXCEPT !.cells =
                [j \in 1..Len(t.cols) |-> CoerceCell(t.rows[i].cells[j])]]]]

\* the loop over grade_q_columns
CoerceGradeQColumns(t) ==
    [t EXCEPT !.rows =
        [i \in 1..Len(t.rows) |->
            [t.rows[i] EXCEPT !.cells =
                [j \in 1..Len(t.cols) |->
                    IF IsGradeQColumn(t.cols[j])
                    THEN CoerceCell(t.rows[i].cells[j])
                    ELSE t.rows[i].cells[j]]]]]

UnnecessaryColumns == << StateName, TimeTakenName >>

\* The outcomes of process_dataframe(t): [st |-> "ok", t |-> the table
\* returned] or [st |-> "error", t |-> EmptyTable] when the call raises.
process_dataframe(t) ==
    LET named == [t EXCEPT !.cols = clean_column_names(t.cols)]
        coerced == CoerceGradeQColumns(named)
    IN {IF o.st = "error"
        THEN [st |-> "error", t |-> EmptyTable]
        ELSE [st |-> "ok", t |-> drop_unnecessary_columns(o.t, UnnecessaryColumns)]
        : o \in drop_duplicate_research_ids(coerced)}

-----------------------------------------------------------------------------
(* standardise_grade *)

RECURSIVE Gcd(_, _)
Gcd(a, b) == IF b = 0 THEN a ELSE Gcd(b, a % b)

Abs(n) == IF n < 0 THEN -n ELSE n

\* the number n/d (d # 0) as a cell in lowest terms with a positive denominator
Frac(n, d) ==
    LET g == Gcd(Abs(n), Abs(d))
        sgn == IF d < 0 THEN -1 ELSE 1
    IN [k |-> "num", v |-> sgn * (n \div g), d |-> sgn * (d \div g), s |-> << >>]

ScaleByHundred(g, m) == Frac(g.v, g.d * 100)

\* (g / m) * 100 in float arithmetic, where g and m are numbers: division by
\* zero gives NaN for 0/0 and a signed infinity otherwise.  Quotients are
\* kept exact: x/x is exactly 1.0 and rounding is monotone, so the order of
\* the results against each other and against 100 is the floats' order.
Scale(g, m) ==
    IF m.v = 0
    THEN (IF g.v = 0 THEN NaN ELSE IF g.v > 0 THEN PInf ELSE NInf)
    ELSE Frac(g.v * m.d * 100, g.d * m.v)

\* series.max(): the largest number of the column, NaN for an empty column
MaxOfCells(cells) ==
    IF cells = {} THEN NaN
    ELSE CHOOSE m \in cells : \A c \in cells : ~Less(m, c)

\* standardise_grade(t): [st |-> "ok", t |-> the table returned], or an error
\* (KeyError) when there is no 'Grade' column.  The argument is copied first.
standardise_grade(t) ==
    IF ~HasColumn(t.cols, GradeName)
    THEN [st |-> "error", t |-> EmptyTable]
    ELSE LET g == ColIndex(t.cols, GradeName)
             numeric == [i \in 1..Len(t.rows) |->
                            [t.rows[i] EXCEPT !.cells[g] = ToNumeric(@)]]
             kept == Pick(numeric, {i \in 1..Len(numeric) : ~IsNull(numeric[i].cells[g])})
             max_grade == MaxOfCells({kept[i].cells[g] : i \in 1..Len(kept)})
         IN [st |-> "ok",
             t |-> [t EXCEPT !.rows =
                      [i \in 1..Len(kept) |->
                          [kept[i] EXCEPT !.cells[g] = Scale(@, max_grade)]]]]

-----------------------------------------------------------------------------
(* Input tables *)

\* A layout is the header of an input file: the raw column names, each with
\* the kind of cells the column is filled with.
Col(name, kind) == [name |-> name, kind |-> kind]

GradeSlashName == << "G","r","a","d","e","/","1","0","0" >>
QOneName == << "Q"," ","1"," ","/","5" >>
TimeTakenRawName == << "T","i","m","e"," ","t","a","k","e","n" >>
ResearchidName == << "R","e","s","e","a","r","c","h","i","d" >>
LowerResearchIdName == << "r","e","s","e","a","r","c","h"," ","i","d" >>
LowerGradeName == << "g","r","a","d","e" >>

\* the headers of the unit tests
LayoutIdGrade == << Col(ResearchIdName, "id"), Col(GradeName, "grade") >>
LayoutTest == << Col(ResearchIdName, "id"), Col(GradeName, "grade"),
                 Col(StateName, "other"), Col(TimeTakenName, "other") >>
\* the header of a quiz export
LayoutExport == << Col(ResearchIdName, "id"), Col(GradeSlashName, "grade"),
                   Col(QOneName, "q"), Col(StateName, "other"),
                   Col(TimeTakenRawName, "other") >>
LayoutLower == << Col(LowerResearchIdName, "id"), Col(LowerGradeName, "grade") >>
\* headers without a ResearchId or without a Grade column
LayoutNoId == << Col(ResearchidName, "id"), Col(GradeName, "grade") >>
LayoutNoGrade == << Col(ResearchIdName, "id"), Col(StateName, "other") >>
LayoutGradeOnly == << Col(GradeName, "grade") >>

Abc == << "a","b","c" >>
Sixty == << "6","0" >>

IdCells == {Num(1), Num(2), NaN}
RawGradeCells == {Num(0), Num(80), NaN, Str(Dash), Str(Abc), Str(Sixty)}
NumericGradeCells == {Num(0), Num(80), Num(90), NaN}

\* the cells of the columns that are not enumerated, by row
QCellAt(i) ==
    LET cs == << Str(Dash), Num(5), NaN, Str(Abc) >>
    IN cs[((i - 1) % Len(cs)) + 1]
OtherCellAt(i) == IF i % 2 = 1 THEN Str(Dash) ELSE Num(30 + i)

\* the table with header layout and n rows, with the given ids and grades
TableOf(layout, n, ids, grades) ==
    [cols |-> [j \in 1..Len(layout) |-> layout[j].name],
     rows |-> [i \in 1..n |->
                 [idx |-> i - 1,
                  cells |-> [j \in 1..Len(layout) |->
                               CASE layout[j].kind = "id" -> ids[i]
                                 [] layout[j].kind = "grade" -> grades[i]
                                 [] layout[j].kind = "q" -> QCellAt(i)
                                 [] layout[j].kind = "rowid" -> Num(i)
                                 [] OTHER -> OtherCellAt(i)]]]]

\* t is one of the tables with a header of layouts and at most MaxRows rows
HasKind(layout, kind) == \E j \in 1..Len(layout) : layout[j].kind = kind

IsTableOf(t, layouts, gradeCells) ==
    \E l \in layouts, n \in 0..MaxRows :
        \E ids \in [1..n -> IF HasKind(l, "id") THEN IdCells ELSE {NaN}],
           grades \in [1..n -> IF HasKind(l, "grade") THEN gradeCells ELSE {NaN}] :
            t = TableOf(l, n, ids, grades)

Row(i, cells) == [idx |-> i, cells |-> cells]
NY == << "N","Y" >>
CA == << "C","A" >>

\* test_process_dataframe
TestProcessTable ==
    [cols |-> << ResearchIdName, GradeName, StateName, TimeTakenName >>,
     rows |-> << Row(0, << Num(1), Num(80), Str(NY), Num(30) >>),
                 Row(1, << Num(1), NaN, Str(NY), Num(45) >>),
                 Row(2, << Num(2), Num(60), Str(CA), Num(40) >>) >>]

\* test_drop_duplicate_research_ids
TestDedupeTable ==
    [cols |-> << ResearchIdName, GradeName >>,
     rows |-> << Row(0, << Num(1), Num(90) >>),
                 Row(1, << Num(1), Num(80) >>),
                 Row(2, << Num(2), Num(85) >>) >>]

\* test_standardise_grade
TestStandardiseTable ==
    [cols |-> << GradeName >>,
     rows |-> << Row(0, << Num(50) >>),
                 Row(1, << Num(100) >>),
                 Row(2, << Num(75) >>) >>]

\* the export and test headers are filled with every kind of grade cell, the
\* other headers with a few
ProcessLayouts == {LayoutExport, LayoutTest}
ProcessLayoutsFew ==
    {LayoutIdGrade, LayoutLower, LayoutNoId, LayoutNoGrade}
FewGradeCells == {Num(0), Num(80), Str(Dash)}
DedupeLayouts == {LayoutIdGrade, LayoutTest, LayoutNoGrade, LayoutGradeOnly}

LayoutRowId == << Col(ResearchIdName, "rowid"), Col(GradeName, "grade") >>
StandardiseGradeCells ==
    {Num(-5), Num(0), Num(50), Num(100), NaN, Str(Dash), Str(Sixty)}

StandardiseLayouts == {LayoutGradeOnly, LayoutRowId, LayoutNoGrade}
DropLayouts == {LayoutIdGrade, LayoutTest, LayoutExport}
DropGradeCells == {Num(80), NaN}

DropLists ==
    {<< StateName, TimeTakenName >>, << TimeTakenName >>, << GradeName, Abc >>, << >>}

\* column names: every name over a small alphabet, and the names of the
\* unit tests and of the input files
NameAlphabet == {"a", "B", " ", "/", "1"}
TestColumnName == << "t","e","s","t"," ","c","o","l","u","m","n" >>
SingleWordName == << "s","i","n","g","l","e","W","o","r","d" >>
MultiWordName ==
    << "m","u","l","t","i","/","w","o","r","d"," ","c","o","l","u","m","n" >>

NameInputs ==
    UNION {[1..n -> NameAlphabet] : n \in 0..MaxNameLen}
    \cup {ResearchIdName, GradeName, StateName, TimeTakenName, GradeSlashName,
          QOneName, TimeTakenRawName, ResearchidName, LowerResearchIdName,
          LowerGradeName, TestColumnName, SingleWordName, MultiWordName}

-----------------------------------------------------------------------------
(* The state machine: one call of one operation *)

NoRet == [st |-> "none", t |-> EmptyTable, name |-> << >>]
Returned(t) == [st |-> "ok", t |-> t, name |-> << >>]
Raised == [st |-> "error", t |-> EmptyTable, name |-> << >>]

\* no top-level run: nothing stored, no connection
NoRun == [prog |-> "none", pc |-> "none"]
StorageIdle == store = << >> /\ conns = {} /\ run = NoRun

Init ==
    /\ StorageIdle
    /\ pc = "call"
    /\ ret = NoRet
    /\ \/ /\ op = "clean_column_name"
          /\ column \in NameInputs
          /\ df = EmptyTable
          /\ columns_to_drop = << >>
       \/ /\ op = "process_dataframe"
          /\ column = << >>
          /\ \/ IsTableOf(df, ProcessLayouts, RawGradeCells)
             \/ IsTableOf(df, ProcessLayoutsFew, FewGradeCells)
             \/ df = TestProcessTable
          /\ columns_to_drop = << >>
       \/ /\ op = "drop_duplicate_research_ids"
          /\ column = << >>
          /\ \/ IsTableOf(df, DedupeLayouts, NumericGradeCells)
             \/ df = TestDedupeTable
          /\ columns_to_drop = << >>
       \/ /\ op = "drop_unnecessary_columns"
          /\ column = << >>
          /\ IsTableOf(df, DropLayouts, DropGradeCells)
          /\ columns_to_drop \in DropLists
       \/ /\ op = "standardise_grade"
          /\ column = << >>
          /\ \/ IsTableOf(df, StandardiseLayouts, StandardiseGradeCells)
             \/ df = TestStandardiseTable
          /\ columns_to_drop = << >>
    /\ input = df

CleanColumnName ==
    /\ pc = "call" /\ op = "clean_column_name"
    /\ ret' = [st |-> "ok", t |-> EmptyTable, name |-> clean_column_name(column)]
    /\ pc' = "done"
    /\ UNCHANGED <<op, column, input, df, columns_to_drop>>
    /\ UNCHANGED storageVars

\* process_dataframe works on df.copy(): the caller's table stays as it is
ProcessDataframe ==
    /\ pc = "call" /\ op = "process_dataframe"
    /\ \E o \in process_dataframe(df) :
          ret' = IF o.st = "ok" THEN Returned(o.t) ELSE Raised
    /\ pc' = "done"
    /\ UNCHANGED <<op, column, input, df, columns_to_drop>>
    /\ UNCHANGED storageVars

\* drop_duplicate_research_ids sorts and drops in place and returns df
DropDuplicateResearchIds ==
    /\ pc = "call" /\ op = "drop_duplicate_research_ids"
    /\ \E o \in drop_duplicate_research_ids(df) :
          /\ df' = o.t
          /\ ret' = IF o.st = "ok" THEN Returned(o.t) ELSE Raised
    /\ pc' = "done"
    /\ UNCHANGED <<op, column, input, columns_to_drop>>
    /\ UNCHANGED storageVars

\* drop_unnecessary_columns drops in place and returns df
DropUnnecessaryColumns ==
    /\ pc = "call" /\ op = "drop_unnecessary_columns"
    /\ df' = drop_unnecessary_columns(df, columns_to_drop)
    /\ ret' = Returned(df')
    /\ pc' = "done"
    /\ UNCHANGED <<op, column, input, columns_to_drop>>
    /\ UNCHANGED storageVars

\* standardise_grade works on df.copy()
StandardiseGrade ==
    /\ pc = "call" /\ op = "standardise_grade"
    /\ ret' = (LET o == standardise_grade(df)
               IN IF o.st = "ok" THEN Returned(o.t) ELSE Raised)
    /\ pc' = "done"
    /\ UNCHANGED <<op, column, input, df, columns_to_drop>>
    /\ UNCHANGED storageVars

Next ==
    \/ CleanColumnName
    \/ ProcessDataframe
    \/ DropDuplicateResearchIds
    \/ DropUnnecessaryColumns
    \/ StandardiseGrade

Spec == Init /\ [][Next]_vars

-----------------------------------------------------------------------------
(* What the claims speak about *)

Done(o) == pc = "done" /\ op = o

\* the input's column names as process_dataframe sees them after renaming
InCols == clean_column_names(input.cols)

\* the input row an output row was retained from (the index label is kept)
InputRow(r) == input.rows[r.idx + 1]

RowsOf(t) == {t.rows[i] : i \in 1..Len(t.rows)}

\* a raw cell that holds a number: a number, or a text that parses as one
IsValidGrade(c) ==
    \/ c.k = "num"
    \/ c.k = "str" /\ Len(c.s) > 0 /\ \A i \in 1..Len(c.s) : IsDigit(c.s[i])

GradeValue(c) == IF c.k = "num" THEN c.v ELSE ParseDigits(c.s)

\* C1: drop_duplicate_research_ids on a table with a ResearchId and a Grade
\* column returns exactly one row per distinct ResearchId of the input, each
\* an input row, whose Grade is the maximum Grade among the input rows with
\* that ResearchId (missing grades are the smallest).
C1_DedupeKeepsMaxGrade ==
    (/\ Done("drop_duplicate_research_ids")
     /\ HasColumn(input.cols, ResearchIdName)
     /\ HasColumn(input.cols, GradeName))
    => /\ ret.st = "ok"
       /\ RowsOf(ret.t) \subseteq RowsOf(input)
       /\ \A r \in RowsOf(input) :
            LET id == CellOf(input, r, ResearchIdName)
                same == {x \in RowsOf(input) : CellOf(input, x, ResearchIdName) = id}
                kept == {i \in 1..Len(ret.t.rows) :
                            CellOf(ret.t, ret.t.rows[i], ResearchIdName) = id}
            IN /\ Cardinality(kept) = 1
               /\ \A i \in kept :
                    LET g == CellOf(ret.t, ret.t.rows[i], GradeName)
                    IN \A x \in same :
                          LET h == CellOf(input, x, GradeName)
                          IN IF IsNull(g) THEN IsNull(h)
                             ELSE IsNull(h) \/ ~Less(g, h)

\* a call of drop_duplicate_research_ids dropped a row with a lower grade
C1_Witness ==
    /\ Done("drop_duplicate_research_ids")
    /\ ret.st = "ok"
    /\ \E x, y \in RowsOf(input) :
          /\ CellOf(input, x, ResearchIdName) = CellOf(input, y, ResearchIdName)
          /\ IsNum(CellOf(input, x, GradeName))
          /\ IsNum(CellOf(input, y, GradeName))
          /\ Less(CellOf(input, x, GradeName), CellOf(input, y, GradeName))
          /\ x.idx < y.idx
          /\ x \notin RowsOf(ret.t)
          /\ y \in RowsOf(ret.t)


\* C2 as claimed: in process_dataframe, whenever a ResearchId has a row with
\* a valid numeric Grade and a row with a missing, '-' or unparseable Grade,
\* the row retained for that id is one with a valid numeric Grade.
C2_ValidGradeRetained ==
    (Done("process_dataframe") /\ ret.st = "ok")
    => LET cols == InCols
           ic == ColIndex(cols, ResearchIdName)
           gc == ColIndex(cols, GradeName)
       IN \A r \in RowsOf(ret.t) :
             LET same == {x \in RowsOf(input) : x.cells[ic] = InputRow(r).cells[ic]}
             IN (/\ \E x \in same : IsValidGrade(x.cells[gc])
                 /\ \E x \in same : ~IsValidGrade(x.cells[gc]))
                => IsValidGrade(InputRow(r).cells[gc])

\* C2 amended: process_dataframe fills missing, '-' and unparseable grades
\* with 0.0 before it removes duplicates, so such rows sort as grade 0.
\* Whenever a ResearchId has a row with a valid numeric Grade greater than 0
\* and a row with a missing or invalid Grade, the row retained for that id
\* has a valid numeric Grade, and the Grade of every retained row is the
\* largest zero-filled Grade of its id.
C2_ValidPositiveGradeRetained ==
    (Done("process_dataframe") /\ ret.st = "ok")
    => LET cols == InCols
           ic == ColIndex(cols, ResearchIdName)
           gc == ColIndex(cols, GradeName)
           og == ColIndex(ret.t.cols, GradeName)
           filled(x) == IF IsValidGrade(x.cells[gc])
                        THEN GradeValue(x.cells[gc]) ELSE 0
       IN \A r \in RowsOf(ret.t) :
             LET same == {x \in RowsOf(input) : x.cells[ic] = InputRow(r).cells[ic]}
             IN /\ (/\ \E x \in same :
                          IsValidGrade(x.cells[gc]) /\ GradeValue(x.cells[gc]) > 0
                    /\ \E x \in same : ~IsValidGrade(x.cells[gc]))
                   => IsValidGrade(InputRow(r).cells[gc])
                /\ r.cells[og] = Num(filled(InputRow(r)))
                /\ \A x \in same : filled(x) <= filled(InputRow(r))

\* process_dataframe kept the row with a positive grade and dropped a row of
\* the same ResearchId that came first and had no valid grade
C2_Witness ==
    /\ Done("process_dataframe")
    /\ ret.st = "ok"
    /\ LET cols == InCols
           ic == ColIndex(cols, ResearchIdName)
           gc == ColIndex(cols, GradeName)
       IN \E r \in RowsOf(ret.t) :
             /\ IsValidGrade(InputRow(r).cells[gc])
             /\ GradeValue(InputRow(r).cells[gc]) > 0
             /\ \E x \in RowsOf(input) :
                   /\ x.cells[ic] = InputRow(r).cells[ic]
                   /\ ~IsValidGrade(x.cells[gc])
                   /\ x.idx < r.idx

\* C3: for an input with ResearchId and Grade columns, the output of
\* process_dataframe has pairwise distinct ResearchId values and as many rows
\* as the input has distinct ResearchId values (a missing ResearchId counts
\* as one value).
C3_OneRowPerResearchId ==
    Done("process_dataframe")
    => LET cols == InCols
           ic == ColIndex(cols, ResearchIdName)
           oc == ColIndex(ret.t.cols, ResearchIdName)
       IN (HasColumn(cols, ResearchIdName) /\ HasColumn(cols, GradeName))
          => /\ ret.st = "ok"
             /\ \A i, j \in 1..Len(ret.t.rows) :
                   i # j => ret.t.rows[i].cells[oc] # ret.t.rows[j].cells[oc]
             /\ Len(ret.t.rows) = Cardinality({x.cells[ic] : x \in RowsOf(input)})

\* process_dataframe ran on ids [1, 1, 2] and returned two rows
C3_Witness ==
    /\ Done("process_dataframe")
    /\ ret.st = "ok"
    /\ Len(input.rows) = 3
    /\ [i \in 1..3 |-> input.rows[i].cells[ColIndex(InCols, ResearchIdName)]]
          = << Num(1), Num(1), Num(2) >>
    /\ Len(ret.t.rows) = 2

\* the cell a grade or question cell must become: its number, or 0.0
Coerced(c) == IF IsValidGrade(c) THEN Num(GradeValue(c)) ELSE Num(0)

\* C4: after the coercion of process_dataframe, in every column whose
\* cleaned name has 'Grade' in it or starts with 'Q', no cell is '-' and no
\* cell is null: a cell that parses as a number keeps its value and a
\* missing, '-' or unparseable cell is 0.0.  This holds of every row after
\* the coercion loop and of every row of the table returned.
C4_TargetedCellsNumeric ==
    Done("process_dataframe")
    => LET cols == InCols
           coerced == CoerceGradeQColumns([input EXCEPT !.cols = cols])
           targeted == {j \in 1..Len(cols) :
                           Contains(cols[j], GradeName) \/ StartsWith(cols[j], QPrefix)}
       IN /\ \A i \in 1..Len(input.rows), j \in targeted :
                /\ coerced.rows[i].cells[j] = Coerced(input.rows[i].cells[j])
                /\ IsNum(coerced.rows[i].cells[j])
          /\ ret.st = "ok"
             => \A j \in 1..Len(ret.t.cols) :
                   (Contains(ret.t.cols[j], GradeName)
                       \/ StartsWith(ret.t.cols[j], QPrefix))
                   => LET ij == ColIndex(cols, ret.t.cols[j])
                      IN \A r \in RowsOf(ret.t) :
                            r.cells[j] = Coerced(InputRow(r).cells[ij])

\* process_dataframe returned a row whose grade was '-' and whose question
\* cell was an unparseable text, and a row whose grade was a numeric text
C4_Witness ==
    /\ Done("process_dataframe")
    /\ ret.st = "ok"
    /\ \E j \in 1..Len(ret.t.cols) : StartsWith(ret.t.cols[j], QPrefix)
    /\ LET gc == ColIndex(InCols, GradeName)
       IN /\ \E r \in RowsOf(ret.t) : InputRow(r).cells[gc] = Str(Dash)
          /\ \E r \in RowsOf(ret.t) :
                /\ InputRow(r).cells[gc] = Str(Sixty)
                /\ CellOf(ret.t, r, GradeName) = Num(60)

\* the name clean_column_name must return, one character at a time: stop at
\* the first '/', skip spaces, and give a letter upper case when the
\* character before it is no letter and lower case when it is
RECURSIVE NormalizeFrom(_, _, _)
NormalizeFrom(name, i, prevCased) ==
    IF i > Len(name) \/ name[i] = "/" THEN << >>
    ELSE IF name[i] = " " THEN NormalizeFrom(name, i + 1, FALSE)
    ELSE << IF ~IsCased(name[i]) THEN name[i]
            ELSE IF prevCased THEN ToLower(name[i]) ELSE ToUpper(name[i]) >>
         \o NormalizeFrom(name, i + 1, IsCased(name[i]))

\* C5: clean_column_name returns 'ResearchId' unchanged and for any other
\* name the part before the first '/' with every word title-cased and all
\* spaces removed; 'test column' -> 'TestColumn', 'singleWord' ->
\* 'Singleword', 'multi/word column' -> 'Multi'.
C5_CleanColumnName ==
    Done("clean_column_name")
    => /\ ret.st = "ok"
       /\ column = ResearchIdName => ret.name = ResearchIdName
       /\ column # ResearchIdName => ret.name = NormalizeFrom(column, 1, FALSE)
       /\ column = TestColumnName
            => ret.name = << "T","e","s","t","C","o","l","u","m","n" >>
       /\ column = SingleWordName
            => ret.name = << "S","i","n","g","l","e","w","o","r","d" >>
       /\ column = MultiWordName => ret.name = << "M","u","l","t","i" >>

\* clean_column_name('multi/word column') returned
C5_Witness ==
    /\ Done("clean_column_name")
    /\ column = MultiWordName
    /\ ret.name = << "M","u","l","t","i" >>

\* C6: for every column name other than 'ResearchId', the name that
\* clean_column_name returns has no space and no '/' in it.
C6_NoSpaceNoSlash ==
    (Done("clean_column_name") /\ column # ResearchIdName)
    => \A i \in 1..Len(ret.name) : ret.name[i] # " " /\ ret.name[i] # "/"

\* clean_column_name returned for a name with a space before a '/'
C6_Witness ==
    /\ Done("clean_column_name")
    /\ column # ResearchIdName
    /\ \E i, j \in 1..Len(column) : i < j /\ column[i] = " " /\ column[j] = "/"
    /\ Len(ret.name) > 0

\* C7: the table process_dataframe returns has no column named 'State' or
\* 'TimeTaken', process_dataframe raises no error when the input has neither
\* column, and drop_unnecessary_columns removes exactly the listed columns
\* that exist and keeps every other column with its cells.
C7_UnnecessaryColumnsDropped ==
    /\ (Done("process_dataframe") /\ ret.st = "ok")
       => \A j \in 1..Len(ret.t.cols) :
             ret.t.cols[j] # StateName /\ ret.t.cols[j] # TimeTakenName
    /\ (/\ Done("process_dataframe")
        /\ HasColumn(InCols, ResearchIdName)
        /\ HasColumn(InCols, GradeName)
        /\ ~HasColumn(InCols, StateName)
        /\ ~HasColumn(InCols, TimeTakenName))
       => ret.st = "ok" /\ ret.t.cols = InCols
    /\ Done("drop_unnecessary_columns")
       => LET listed(name) ==
                 \E i \in 1..Len(columns_to_drop) : columns_to_drop[i] = name
              unlisted(name) == ~listed(name)
          IN /\ ret.st = "ok"
             /\ ret.t = df
             /\ df.cols = SelectSeq(input.cols, unlisted)
             /\ Len(df.rows) = Len(input.rows)
             /\ \A i \in 1..Len(df.rows), j \in 1..Len(df.cols) :
                   /\ df.rows[i].idx = input.rows[i].idx
                   /\ df.rows[i].cells[j]
                        = input.rows[i].cells[ColIndex(input.cols, df.cols[j])]

\* process_dataframe returned a table for an export that has a 'State' and a
\* 'Time taken' column
C7_Witness ==
    /\ Done("process_dataframe")
    /\ ret.st = "ok"
    /\ HasColumn(InCols, StateName)
    /\ HasColumn(InCols, TimeTakenName)
    /\ Len(ret.t.rows) > 0
    /\ Len(ret.t.cols) = Len(input.cols) - 2

IsInteger(c) == c.k = "num" /\ c.d = 1

\* C9 as claimed: every record of a table returned by process_dataframe has
\* a non-null, integer-valued ResearchId, also when rows of the input have a
\* missing ResearchId.
C9_ResearchIdNeverNull ==
    (Done("process_dataframe") /\ ret.st = "ok")
    => \A r \in RowsOf(ret.t) : IsInteger(CellOf(ret.t, r, ResearchIdName))

\* C9 amended: every record of a table returned by process_dataframe has the
\* ResearchId of the input row it was retained from, unchanged.  It is
\* non-null and integer-valued when that input row's ResearchId is; when
\* rows of the input have a missing ResearchId, exactly one of them is
\* returned, with its ResearchId still missing.
C9_ResearchIdPassedThrough ==
    (Done("process_dataframe") /\ ret.st = "ok")
    => LET ic == ColIndex(InCols, ResearchIdName)
           oc == ColIndex(ret.t.cols, ResearchIdName)
       IN /\ \A r \in RowsOf(ret.t) : r.cells[oc] = InputRow(r).cells[ic]
          /\ (\A x \in RowsOf(input) : IsInteger(x.cells[ic]))
             => \A r \in RowsOf(ret.t) : IsInteger(r.cells[oc])
          /\ (\E x \in RowsOf(input) : IsNull(x.cells[ic]))
             => Cardinality({r \in RowsOf(ret.t) : IsNull(r.cells[oc])}) = 1

\* process_dataframe returned a row with an integer ResearchId and a row
\* whose ResearchId is missing
C9_Witness ==
    /\ Done("process_dataframe")
    /\ ret.st = "ok"
    /\ \E r \in RowsOf(ret.t) : IsInteger(CellOf(ret.t, r, ResearchIdName))
    /\ \E r \in RowsOf(ret.t) : IsNull(CellOf(ret.t, r, ResearchIdName))

\* C10: when the input of standardise_grade has at least one non-null
\* numeric Grade and the largest Grade is greater than 0, the largest Grade
\* of the table returned is 100.
C10_StandardisedMaxIsHundred ==
    (/\ Done("standardise_grade")
     /\ HasColumn(input.cols, GradeName)
     /\ \E x \in RowsOf(input) :
           /\ IsValidGrade(CellOf(input, x, GradeName))
           /\ GradeValue(CellOf(input, x, GradeName)) > 0)
    => /\ ret.st = "ok"
       /\ \E r \in RowsOf(ret.t) : CellOf(ret.t, r, GradeName) = Num(100)
       /\ \A r \in RowsOf(ret.t) :
             /\ IsNum(CellOf(ret.t, r, GradeName))
             /\ ~Less(Num(100), CellOf(ret.t, r, GradeName))

\* standardise_grade returned 100 for a largest grade that was not 100 and
\* less than 100 for another row
C10_Witness ==
    /\ Done("standardise_grade")
    /\ ret.st = "ok"
    /\ \E r, q \in RowsOf(ret.t) :
          /\ CellOf(ret.t, r, GradeName) = Num(100)
          /\ CellOf(input, InputRow(r), GradeName) = Num(50)
          /\ IsNum(CellOf(ret.t, q, GradeName))
          /\ Less(CellOf(ret.t, q, GradeName), Num(100))


-----------------------------------------------------------------------------
(* underperformingStudent: the consolidated matrix and its grade columns *)

\* A matrix is a table whose rows are labelled by ResearchId (set_index):
\* idx is the id cell of the row.
GradeTest1Name == << "G","r","a","d","e","_","T","e","s","t","1" >>
GradeTest2Name == << "G","r","a","d","e","_","T","e","s","t","2" >>
GradeTest3Name == << "G","r","a","d","e","_","T","e","s","t","3" >>
GradeTest4Name == << "G","r","a","d","e","_","T","e","s","t","4" >>
GradeMocktestName == << "G","r","a","d","e","_","M","o","c","k","t","e","s","t" >>
GradeSumtestName == << "G","r","a","d","e","_","S","u","m","t","e","s","t" >>

\* df.filter(like='Grade').columns: the positions whose name has 'Grade' in it
grade_columns(t) == {j \in 1..Len(t.cols) : Contains(t.cols[j], GradeName)}

\* series.max() of column j: NaN cells are skipped
ColumnMax(t, j) ==
    MaxOfCells({t.rows[i].cells[j] : i \in 1..Len(t.rows)} \ {NaN})

\* series.round(1): the nearest multiple of 0.1, a tie going to the even
\* one; NaN and the infinities stay
Round1(c) ==
    IF c.k # "num" THEN c
    ELSE LET q == (10 * c.v) \div c.d
             r == (10 * c.v) % c.d
         IN IF 2 * r < c.d THEN Frac(q, 10)
            ELSE IF 2 * r > c.d THEN Frac(q + 1, 10)
            ELSE IF q % 2 = 0 THEN Frac(q, 10) ELSE Frac(q + 1, 10)

\* (x / max) * 100 on a float column: NaN where x or max is NaN
ScaleCell(c, m) == IF IsNull(c) \/ IsNull(m) THEN NaN ELSE Scale(c, m)

\* standardise_grades(df): every grade column is divided by its own maximum,
\* multiplied by 100 and rounded to one decimal, in place
standardise_grades(t) ==
    [t EXCEPT !.rows =
        [i \in 1..Len(t.rows) |->
            [t.rows[i] EXCEPT !.cells =
                [j \in 1..Len(t.cols) |->
                    IF j \in grade_columns(t)
                    THEN Round1(ScaleCell(t.rows[i].cells[j], ColumnMax(t, j)))
                    ELSE t.rows[i].cells[j]]]]]

\* the matrices with the given header and at most MaxRows rows: the grade
\* columns take every combination of cells of cs, the other columns hold 30
IsMatrixOf(t, cols, cs) ==
    LET gs == {j \in 1..Len(cols) : Contains(cols[j], GradeName)} IN
    \E n \in 0..MaxRows :
        \E m \in [1..n -> [gs -> cs]] :
            t = [cols |-> cols,
                 rows |-> [i \in 1..n |->
                             [idx |-> Num(i),
                              cells |-> [j \in 1..Len(cols) |->
                                           IF j \in gs THEN m[i][j]
                                           ELSE Num(30)]]]]

\* test_standardise_grades
TestStandardiseGradesMatrix ==
    [cols |-> << GradeTest1Name >>,
     rows |-> << [idx |-> 0, cells |-> << Num(80) >>],
                 [idx |-> 1, cells |-> << Num(90) >>],
                 [idx |-> 2, cells |-> << Num(100) >>] >>]

MatrixGradeCells == {Num(-5), Num(0), Num(30), Num(80), NaN}
StandardiseMatrixCols == << GradeTest1Name, StateName, GradeSumtestName >>


-----------------------------------------------------------------------------
(* studentPerformance: one question column of one stored table *)

\* A stored table is a table whose rows are in rowid order; a NULL is the
\* cell NaN.  The rows WHERE ResearchId = research_id: a NULL never matches.
QOneColumn == << "Q","1" >>
QTwoColumn == << "Q","2" >>

Matching(t, research_id) ==
    LET c == ColIndex(t.cols, ResearchIdName)
    IN {i \in 1..Len(t.rows) : t.rows[i].cells[c] = Num(research_id)}

\* the longest prefix of s made of decimal digits
RECURSIVE DigitPrefix(_)
DigitPrefix(s) ==
    IF Len(s) = 0 \/ ~IsDigit(s[1]) THEN << >>
    ELSE << s[1] >> \o DigitPrefix(Tail(s))

\* CAST(x AS REAL) in SQLite: a number stays, NULL stays NULL, a text gives
\* the number its longest numeric prefix spells and 0.0 when it has none
CastReal(c) ==
    IF c.k = "str" THEN Num(ParseDigits(DigitPrefix(c.s))) ELSE c

\* the values CAST(q_column AS REAL) that are not NULL, as a sequence
ColumnValues(t, q_column) ==
    LET c == ColIndex(t.cols, q_column)
        ps == Positions(Len(t.rows), 1,
                        {i \in 1..Len(t.rows) : ~IsNull(t.rows[i].cells[c])})
    IN [i \in 1..Len(ps) |-> CastReal(t.rows[ps[i]].cells[c])]

\* the sum of a sequence of numbers, as a number
RECURSIVE SumCells(_)
SumCells(cs) ==
    IF cs = << >> THEN Num(0)
    ELSE LET h == Head(cs)
             r == SumCells(Tail(cs))
         IN Frac(h.v * r.d + r.v * h.d, h.d * r.d)

AvgUndivided(cs) == IF cs = << >> THEN NaN ELSE SumCells(cs)

\* SELECT AVG(CAST(q_column AS REAL)): NULL cells are left out, NULL when
\* nothing is left
Avg(cs) ==
    IF cs = << >> THEN NaN
    ELSE LET sum == SumCells(cs) IN Frac(sum.v, sum.d * Len(cs))

\* SELECT MAX(CAST(q_column AS REAL)), read through pandas: NULL when the
\* column has no value
get_max_grade(t, q_column) ==
    LET cs == ColumnValues(t, q_column)
    IN MaxOfCells({cs[i] : i \in 1..Len(cs)})

Pair(a, b) == [st |-> "ok", grade |-> a, average |-> b]
NonePair == Pair(NaN, NaN)
RaisedPair == [st |-> "error", grade |-> NaN, average |-> NaN]

\* float(x) of Python for a value read from the database: a number stays, a
\* text of decimal digits is parsed; None (TypeError) and any other text
\* (ValueError) give NaN here, which stands for the exception
PyFloat(c) == ToNumeric(c)

\* get_column_grade_and_average: fetchone() takes the first matching row in
\* rowid order; float(entry[0]) raises for a NULL entry and for a text that
\* is no number
get_column_grade_and_average(research_id, t, q_column) ==
    LET found == Matching(t, research_id)
        c == ColIndex(t.cols, q_column)
    IN IF found = {} THEN NonePair
       ELSE LET first == CHOOSE i \in found : \A k \in found : i <= k
                entry == PyFloat(t.rows[first].cells[c])
            IN IF IsNull(entry) THEN RaisedPair
               ELSE Pair(entry, Avg(ColumnValues(t, q_column)))

\* standardise_grades(grade, average, max_grade) of studentPerformance;
\* max_grade is the numpy float that get_max_grade read, so that a division
\* by zero gives NaN or an infinity, and None when the column has no value
\* (a TypeError)
sp_standardise_grades(grade, average, max_grade) ==
    IF IsNull(grade) THEN NonePair
    ELSE IF IsNull(max_grade) THEN RaisedPair
    ELSE Pair(Scale(grade, max_grade), Scale(average, max_grade))

retrieve_and_standardise_unguarded(research_id, t, q_column) ==
    LET max_grade == get_max_grade(t, q_column)
        ga == get_column_grade_and_average(research_id, t, q_column)
    IN IF ga.st = "error" THEN RaisedPair
       ELSE IF IsNull(ga.grade) THEN NonePair
       ELSE sp_standardise_grades(ga.grade, ga.average, max_grade)

\* retrieve_and_standardise_q_column_data: any exception is reported and
\* (None, None) returned
retrieve_and_standardise_q_column_data(research_id, t, q_column) ==
    LET max_grade == get_max_grade(t, q_column)
        ga == get_column_grade_and_average(research_id, t, q_column)
    IN IF ga.st = "error" THEN NonePair
       ELSE IF IsNull(ga.grade) THEN NonePair
       ELSE LET o == sp_standardise_grades(ga.grade, ga.average, max_grade)
            IN IF o.st = "error" THEN NonePair ELSE o

\* setup_test_data: TestTable1
TestTable1 ==
    [cols |-> << ResearchIdName, QOneColumn, QTwoColumn >>,
     rows |-> << Row(0, << Num(1), Num(80), Num(70) >>),
                 Row(1, << Num(2), Num(90), Num(85) >>),
                 Row(2, << Num(3), Num(75), Num(65) >>) >>]

\* The stored tables process_dataframe can leave behind: no ResearchId twice
\* (a single NULL one at most), the question columns filled with numbers.
QCells == {Num(-5), Num(0), Num(75), Num(80)}
QColumns == {QOneColumn, QTwoColumn}
ResearchIds == {1, 2, 3}

IsStoredQTable(t) ==
    \E n \in 0..MaxRows :
        \E ids \in [1..n -> IdCells], qs \in [1..n -> QCells] :
            /\ \A i, j \in 1..n : i # j => ids[i] # ids[j]
            /\ t = [cols |-> << ResearchIdName, QOneColumn, QTwoColumn >>,
                    rows |-> [i \in 1..n |->
                                Row(i - 1, << ids[i], qs[i], Num(5 * i) >>)]]


\* A table of the database that the cleaning did not write: a ResearchId
\* may be missing or stored twice, a question cell may be NULL or a text
AnyQCells == {Num(0), Num(80), NaN, Str(Abc), Str(Sixty)}

IsAnyQTable(t) ==
    \E n \in 0..MaxRows :
        \E ids \in [1..n -> IdCells], qs \in [1..n -> AnyQCells] :
            t = [cols |-> << ResearchIdName, QOneColumn >>,
                 rows |-> [i \in 1..n |-> Row(i - 1, << ids[i], qs[i] >>)]]

-----------------------------------------------------------------------------
(* underperformingStudent.create_dataframe and drop_rows_above_threshold *)

\* the tables the query reads, in the order of its Grade_ columns
TestTableNames == << "Test1", "Test2", "Test3", "Test4", "Mocktest", "Sumtest" >>
MatrixCols ==
    << GradeTest1Name, GradeTest2Name, GradeTest3Name, GradeTest4Name,
       GradeMocktestName, GradeSumtestName >>

\* the ResearchId cells of a stored table
IdsOf(t) ==
    LET c == ColIndex(t.cols, ResearchIdName)
    IN {t.rows[i].cells[c] : i \in 1..Len(t.rows)}

\* SELECT DISTINCT ResearchId FROM (... UNION ...): NULL is one of the values
UnionOfIds(db) == UNION {IdsOf(db[TestTableNames[k]]) : k \in 1..Len(TestTableNames)}

\* the ids in the order SQLite's UNION gives them: NULL first, then ascending
IdBefore(a, b) == a # b /\ (IsNull(a) \/ (~IsNull(b) /\ Less(a, b)))

RECURSIVE SortedIds(_)
SortedIds(ids) ==
    IF ids = {} THEN << >>
    ELSE LET least == CHOOSE a \in ids : \A b \in ids \ {a} : IdBefore(a, b)
         IN << least >> \o SortedIds(ids \ {least})

JoinedGradeNullsEqual(t, id) ==
    LET c == ColIndex(t.cols, ResearchIdName)
        g == ColIndex(t.cols, GradeName)
        found == {i \in 1..Len(t.rows) : t.rows[i].cells[c] = id}
    IN IF found = {} THEN NaN
       ELSE t.rows[CHOOSE i \in found : TRUE].cells[g]

\* LEFT JOIN t ON ResearchIds.ResearchId = t.ResearchId, for a table that has
\* no ResearchId twice: the Grade of the row with that id, NULL when no row
\* has it.  NULL = NULL is not true, so that a NULL id joins no row.
JoinedGrade(t, id) ==
    LET c == ColIndex(t.cols, ResearchIdName)
        g == ColIndex(t.cols, GradeName)
        found == {i \in 1..Len(t.rows) :
                     ~IsNull(id) /\ t.rows[i].cells[c] = id}
    IN IF found = {} THEN NaN
       ELSE t.rows[CHOOSE i \in found : TRUE].cells[g]

create_dataframe_union_all(db) ==
    LET ids == SortedIds(IdsOf(db["Test1"])) \o SortedIds(UnionOfIds(db))
    IN [cols |-> MatrixCols,
        rows |-> [i \in 1..Len(ids) |->
                    [idx |-> ids[i],
                     cells |-> [k \in 1..Len(TestTableNames) |->
                                  JoinedGrade(db[TestTableNames[k]], ids[i])]]]]

\* create_dataframe(): one row for each id of the union, labelled by the id
create_dataframe(db) ==
    LET ids == SortedIds(UnionOfIds(db))
    IN [cols |-> MatrixCols,
        rows |-> [i \in 1..Len(ids) |->
                    [idx |-> ids[i],
                     cells |-> [k \in 1..Len(TestTableNames) |->
                                  JoinedGrade(db[TestTableNames[k]], ids[i])]]]]

\* The stored test tables process_dataframe can leave behind: no ResearchId
\* twice (a single NULL one at most) and a number in every Grade cell.
StoredGradeAt(k, id) == IF IsNull(id) THEN Num(40 + k) ELSE Num(10 * k + id.v)

StoredTestTable(k, ids) ==
    [cols |-> << ResearchIdName, GradeName >>,
     rows |-> [i \in 1..Len(ids) |->
                 Row(i - 1, << ids[i], StoredGradeAt(k, ids[i]) >>)]]

DistinctIdSeqs ==
    {ids \in UNION {[1..n -> IdCells] : n \in 0..MaxRows} :
        \A i, j \in 1..Len(ids) : i # j => ids[i] # ids[j]}

\* setup_dummy_data: every table holds (1, 80), (2, 70), (3, 60)
DummyTestTable ==
    [cols |-> << ResearchIdName, GradeName >>,
     rows |-> << Row(0, << Num(1), Num(80) >>),
                 Row(1, << Num(2), Num(70) >>),
                 Row(2, << Num(3), Num(60) >>) >>]

DummyDatabase == [n \in {TestTableNames[k] : k \in 1..Len(TestTableNames)} |-> DummyTestTable]

\* Test1, Test3 and Sumtest hold any such table; the other three are all
\* empty or all the table of the unit test
IsTestDatabase(db) ==
    \E a \in DistinctIdSeqs, b \in DistinctIdSeqs, c \in DistinctIdSeqs,
       rest \in {StoredTestTable(0, << >>), DummyTestTable} :
        db = [n \in {TestTableNames[k] : k \in 1..Len(TestTableNames)} |->
                CASE n = "Test1" -> StoredTestTable(1, a)
                  [] n = "Test3" -> StoredTestTable(3, b)
                  [] n = "Sumtest" -> StoredTestTable(6, c)
                  [] OTHER -> rest]


LowGradeExclusive(c) == c.k = "num" /\ c.v > c.d /\ c.v < 49 * c.d

\* (x >= 1) & (x <= 49) for one cell: a comparison with NaN is False
LowGrade(c) == c.k = "num" /\ c.v >= c.d /\ c.v <= 49 * c.d

\* mask.sum(axis=1) >= 3 for row i
KeepsRow(t, i) ==
    Cardinality({j \in grade_columns(t) : LowGrade(t.rows[i].cells[j])}) >= 3

\* drop_rows_above_threshold(df): df[mask], a new table; df stays as it is
drop_rows_above_threshold(t) ==
    [t EXCEPT !.rows = Pick(t.rows, {i \in 1..Len(t.rows) : KeepsRow(t, i)})]

\* test_drop_rows_above_threshold
TestThresholdMatrix ==
    [cols |-> << GradeTest1Name, GradeTest2Name, GradeTest3Name >>,
     rows |-> << [idx |-> 0, cells |-> << Num(50), Num(55), Num(60) >>],
                 [idx |-> 1, cells |-> << Num(60), Num(65), Num(70) >>],
                 [idx |-> 2, cells |-> << Num(70), Num(75), Num(80) >>] >>]

\* four grade columns and one other; the first row takes every combination
\* of cells, the rows after it are taken from a few
ThresholdCols ==
    << GradeTest1Name, StateName, GradeTest2Name, GradeTest3Name, GradeSumtestName >>
ThresholdCells == {Num(0), Num(1), Num(49), Num(50), Frac(99, 2), NaN}
LaterRows ==
    {<< Num(1), Num(20), Num(49), Num(30), Num(80) >>,
     << Num(50), Num(20), Num(55), Num(60), Num(70) >>}

IsThresholdMatrix(t) ==
    \E n \in 1..MaxRows :
        \E first \in [{1, 3, 4, 5} -> ThresholdCells],
           later \in [2..n -> LaterRows] :
            t = [cols |-> ThresholdCols,
                 rows |-> [i \in 1..n |->
                             [idx |-> Num(i),
                              cells |-> IF i = 1
                                        THEN [j \in 1..5 |->
                                                IF j = 2 THEN Num(20) ELSE first[j]]
                                        ELSE later[i]]]]

-----------------------------------------------------------------------------
(* hardworkingStudents.generate_hardworking_students_list *)

RatingsName == << "R","a","t","i","n","g","s" >>
GradeSumTestName == << "G","r","a","d","e","_","S","u","m","T","e","s","t" >>
Beginner == << "B","e","g","i","n","n","e","r" >>
BelowBeginner == << "B","e","l","o","w"," ","B","e","g","i","n","n","e","r" >>
Expert == << "E","x","p","e","r","t" >>
LowerBeginner == << "b","e","g","i","n","n","e","r" >>

IsHardworkingAtLeast(t, i) ==
    LET rating == t.rows[i].cells[ColIndex(t.cols, RatingsName)]
        grade == t.rows[i].cells[ColIndex(t.cols, GradeSumTestName)]
    IN /\ rating \in {Str(BelowBeginner), Str(Beginner)}
       /\ grade.k = "num" /\ grade.v >= 60 * grade.d

\* df['Ratings'].isin([...]) & (df['Grade_SumTest'] > 60) for row i
IsHardworking(t, i) ==
    LET rating == t.rows[i].cells[ColIndex(t.cols, RatingsName)]
        grade == t.rows[i].cells[ColIndex(t.cols, GradeSumTestName)]
    IN /\ rating \in {Str(BelowBeginner), Str(Beginner)}
       /\ grade.k = "num" /\ grade.v > 60 * grade.d

\* filtered_df[['Grade_SumTest', 'Ratings']]
ProjectRow(t, r) ==
    [r EXCEPT !.cells = << r.cells[ColIndex(t.cols, GradeSumTestName)],
                           r.cells[ColIndex(t.cols, RatingsName)] >>]

\* generate_hardworking_students_list(df): the tables it may return (the sort
\* is free among equal grades), or a KeyError when a column is missing
generate_hardworking_students_list(t) ==
    IF ~HasColumn(t.cols, RatingsName) \/ ~HasColumn(t.cols, GradeSumTestName)
    THEN {[st |-> "error", t |-> EmptyTable]}
    ELSE LET filtered == Pick(t.rows, {i \in 1..Len(t.rows) : IsHardworking(t, i)})
             g == ColIndex(t.cols, GradeSumTestName)
         IN {[st |-> "ok",
              t |-> [cols |-> << GradeSumTestName, RatingsName >>,
                     rows |-> [i \in 1..Len(filtered) |->
                                 ProjectRow(t, Reorder(filtered, p)[i])]]] :
                p \in SortOrders(filtered, g)}

\* test_generate_hardworking_students_list
TestHardworkingTable ==
    [cols |-> << RatingsName, GradeSumTestName >>,
     rows |-> << Row(0, << Str(Beginner), Num(65) >>),
                 Row(1, << Str(Expert), Num(50) >>),
                 Row(2, << Str(Beginner), Num(80) >>) >>]

RatingCells == {Str(Beginner), Str(BelowBeginner), Str(Expert), Str(LowerBeginner)}
SumTestCells == {Num(60), Num(61), Num(80), NaN}
JoinedCols == << RatingsName, GradeSumTestName, QOneColumn >>

IsJoinedTable(t) ==
    \/ \E n \in 0..MaxRows :
          \E rs \in [1..n -> RatingCells], gs \in [1..n -> SumTestCells] :
              t = [cols |-> JoinedCols,
                   rows |-> [i \in 1..n |-> Row(i, << rs[i], gs[i], Num(5) >>)]]
    \/ t = [cols |-> << RatingsName, GradeName >>,
            rows |-> << Row(1, << Str(Beginner), Num(80) >>) >>]


-----------------------------------------------------------------------------
(* underperformingStudent: zero-fill, numeric conversion and sorting *)

FillThirty(c) == IF IsNull(c) THEN Num(30) ELSE c

FillZero(c) == IF IsNull(c) THEN Num(0) ELSE c

\* df.fillna(0, inplace=True): every missing cell of every column becomes
\* 0; the index labels (the ResearchId of the matrix) are no cells and stay
replace_nan_with_zero(t) ==
    [t EXCEPT !.rows =
        [i \in 1..Len(t.rows) |->
            [t.rows[i] EXCEPT !.cells =
                [j \in 1..Len(t.cols) |-> FillZero(t.rows[i].cells[j])]]]]

\* df[column] = pd.to_numeric(df[column], errors='coerce') for the columns
\* of df.filter(like='Grade')
convert_grades_to_numeric(t) ==
    [t EXCEPT !.rows =
        [i \in 1..Len(t.rows) |->
            [t.rows[i] EXCEPT !.cells =
                [j \in 1..Len(t.cols) |->
                    IF j \in grade_columns(t)
                    THEN ToNumeric(t.rows[i].cells[j])
                    ELSE t.rows[i].cells[j]]]]]

\* df.sort_values(by='Grade_Sumtest'): p is an order the sort may produce,
\* non-decreasing, NaN last in original order, equal grades in any order
IsSortOrderAscending(rows, g, p) ==
    \A i, j \in 1..Len(rows) :
        i < j =>
            LET a == rows[p[i]].cells[g]
                b == rows[p[j]].cells[g]
            IN /\ ~(IsNull(a) /\ ~IsNull(b))
               /\ (~IsNull(a) /\ ~IsNull(b)) => ~Less(b, a)
               /\ (IsNull(a) /\ IsNull(b)) => p[i] < p[j]

\* The outcomes of sort_dataframe(t): a new table, or KeyError when there
\* is no 'Grade_Sumtest' column
sort_dataframe(t) ==
    IF ~HasColumn(t.cols, GradeSumtestName)
    THEN {[st |-> "error", t |-> EmptyTable]}
    ELSE {[st |-> "ok", t |-> [t EXCEPT !.rows = Reorder(t.rows, p)]]
          : p \in {q \in Permutations(1..Len(t.rows)) :
                      IsSortOrderAscending(t.rows, ColIndex(t.cols, GradeSumtestName), q)}}

\* a matrix whose first row has no ResearchId
NullIdMatrix ==
    [cols |-> StandardiseMatrixCols,
     rows |-> << [idx |-> NaN, cells |-> << NaN, NaN, NaN >>],
                 [idx |-> Num(1), cells |-> << Num(30), NaN, Num(80) >>] >>]

TextGradeCells == {Num(30), NaN, Str(Sixty), Str(Abc)}
SortMatrixCols == << GradeTest1Name, GradeSumtestName >>
SortGradeCells == {Num(0), Num(30), NaN}

-----------------------------------------------------------------------------
(* The analysis operations: one call of one operation *)

Lookup(research_id, t) == [research_id |-> research_id, t |-> t]

AnalysisInit ==
    /\ StorageIdle
    /\ pc = "call"
    /\ ret = NoRet
    /\ columns_to_drop = << >>
    /\ \/ /\ op = "standardise_grade"
          /\ column = << >>
          /\ \/ IsTableOf(df, StandardiseLayouts, StandardiseGradeCells)
             \/ df = TestStandardiseTable
          /\ input = df
       \/ /\ op = "standardise_grades"
          /\ column = << >>
          /\ \/ IsMatrixOf(df, StandardiseMatrixCols, MatrixGradeCells)
             \/ df = TestStandardiseGradesMatrix
          /\ input = df
       \/ /\ op \in {"get_column_grade_and_average",
                     "retrieve_and_standardise_q_column_data"}
          /\ column \in QColumns
          /\ \/ IsStoredQTable(df)
             \/ df = TestTable1
          /\ \E research_id \in ResearchIds : input = Lookup(research_id, df)
       \/ /\ op = "create_dataframe"
          /\ column = << >>
          /\ df = EmptyTable
          /\ \/ IsTestDatabase(input)
             \/ input = DummyDatabase
       \/ /\ op = "drop_rows_above_threshold"
          /\ column = << >>
          /\ \/ IsThresholdMatrix(df)
             \/ df = TestThresholdMatrix
             \/ df = [cols |-> ThresholdCols, rows |-> << >>]
          /\ input = df
       \/ /\ op = "generate_hardworking_students_list"
          /\ column = << >>
          /\ \/ IsJoinedTable(df)
             \/ df = TestHardworkingTable
          /\ input = df
       \/ /\ op = "replace_nan_with_zero"
          /\ column = << >>
          /\ \/ IsMatrixOf(df, StandardiseMatrixCols, MatrixGradeCells)
             \/ df = NullIdMatrix
          /\ input = df
       \/ /\ op = "convert_grades_to_numeric"
          /\ column = << >>
          /\ IsMatrixOf(df, StandardiseMatrixCols, TextGradeCells)
          /\ input = df
       \/ /\ op = "sort_dataframe"
          /\ column = << >>
          /\ \/ IsMatrixOf(df, SortMatrixCols, SortGradeCells)
             \/ df = TestStandardiseGradesMatrix
          /\ input = df

\* standardise_grades assigns the columns of df and returns df
StandardiseGrades ==
    /\ pc = "call" /\ op = "standardise_grades"
    /\ df' = standardise_grades(df)
    /\ ret' = Returned(df')
    /\ pc' = "done"
    /\ UNCHANGED <<op, column, input, columns_to_drop>>
    /\ UNCHANGED storageVars

GetColumnGradeAndAverage ==
    /\ pc = "call" /\ op = "get_column_grade_and_average"
    /\ ret' = get_column_grade_and_average(input.research_id, df, column)
    /\ pc' = "done"
    /\ UNCHANGED <<op, column, input, df, columns_to_drop>>
    /\ UNCHANGED storageVars

RetrieveAndStandardiseQColumnData ==
    /\ pc = "call" /\ op = "retrieve_and_standardise_q_column_data"
    /\ ret' = retrieve_and_standardise_q_column_data(input.research_id, df, column)
    /\ pc' = "done"
    /\ UNCHANGED <<op, column, input, df, columns_to_drop>>
    /\ UNCHANGED storageVars

CreateDataframe ==
    /\ pc = "call" /\ op = "create_dataframe"
    /\ df' = create_dataframe(input)
    /\ ret' = Returned(df')
    /\ pc' = "done"
    /\ UNCHANGED <<op, column, input, columns_to_drop>>
    /\ UNCHANGED storageVars

DropRowsAboveThreshold ==
    /\ pc = "call" /\ op = "drop_rows_above_threshold"
    /\ ret' = Returned(drop_rows_above_threshold(df))
    /\ pc' = "done"
    /\ UNCHANGED <<op, column, input, df, columns_to_drop>>
    /\ UNCHANGED storageVars

GenerateHardworkingStudentsList ==
    /\ pc = "call" /\ op = "generate_hardworking_students_list"
    /\ \E o \in generate_hardworking_students_list(df) :
          ret' = IF o.st = "ok" THEN Returned(o.t) ELSE Raised
    /\ pc' = "done"
    /\ UNCHANGED <<op, column, input, df, columns_to_drop>>
    /\ UNCHANGED storageVars

\* replace_nan_with_zero fills df in place and returns df
ReplaceNanWithZero ==
    /\ pc = "call" /\ op = "replace_nan_with_zero"
    /\ df' = replace_nan_with_zero(df)
    /\ ret' = Returned(df')
    /\ pc' = "done"
    /\ UNCHANGED <<op, column, input, columns_to_drop>>
    /\ UNCHANGED storageVars

\* convert_grades_to_numeric assigns the columns of df and returns df
ConvertGradesToNumeric ==
    /\ pc = "call" /\ op = "convert_grades_to_numeric"
    /\ df' = convert_grades_to_numeric(df)
    /\ ret' = Returned(df')
    /\ pc' = "done"
    /\ UNCHANGED <<op, column, input, columns_to_drop>>
    /\ UNCHANGED storageVars

SortDataframeInPlace ==
    /\ pc = "call" /\ op = "sort_dataframe"
    /\ \E o \in sort_dataframe(df) :
          /\ ret' = IF o.st = "ok" THEN Returned(o.t) ELSE Raised
          /\ df' = IF o.st = "ok" THEN o.t ELSE df
    /\ pc' = "done"
    /\ UNCHANGED <<op, column, input, columns_to_drop>>
    /\ UNCHANGED storageVars

\* sort_dataframe binds the name df to the new table sort_values returns
SortDataframe ==
    /\ pc = "call" /\ op = "sort_dataframe"
    /\ \E o \in sort_dataframe(df) :
          ret' = IF o.st = "ok" THEN Returned(o.t) ELSE Raised
    /\ pc' = "done"
    /\ UNCHANGED <<op, column, input, df, columns_to_drop>>
    /\ UNCHANGED storageVars

AnalysisNext ==
    \/ StandardiseGrade
    \/ ReplaceNanWithZero
    \/ ConvertGradesToNumeric
    \/ SortDataframe
    \/ StandardiseGrades
    \/ GetColumnGradeAndAverage
    \/ RetrieveAndStandardiseQColumnData
    \/ CreateDataframe
    \/ DropRowsAboveThreshold
    \/ GenerateHardworkingStudentsList

AnalysisSpec == AnalysisInit /\ [][AnalysisNext]_vars


-----------------------------------------------------------------------------
(* What the claims about the analysis operations speak about *)

InUnitRange(c) == c.k = "num" /\ c.v >= 0 /\ c.v <= 100 * c.d

\* C11: every non-null value that grade standardisation produces, by
\* standardise_grade and by standardise_grades on the matrix, lies in [0, 100].
C11_StandardisedInRange ==
    /\ (Done("standardise_grade") /\ ret.st = "ok") =>
          LET g == ColIndex(ret.t.cols, GradeName)
          IN \A i \in 1..Len(ret.t.rows) :
                LET c == ret.t.rows[i].cells[g]
                IN ~IsNull(c) => InUnitRange(c)
    /\ Done("standardise_grades") =>
          \A i \in 1..Len(df.rows) : \A j \in grade_columns(df) :
              LET c == df.rows[i].cells[j]
              IN ~IsNull(c) => InUnitRange(c)

\* C12: a cell whose column has the maximum zero, or whose raw grade is null,
\* is null after standardisation (no number, no infinity, no exception), in
\* standardise_grade, in standardise_grades on the matrix and in
\* studentPerformance's standardise_grades.
C12_NullWhenMaxZeroOrGradeNull ==
    /\ (Done("standardise_grade") /\ HasColumn(input.cols, GradeName)) =>
          /\ ret.st = "ok"
          /\ LET g == ColIndex(input.cols, GradeName)
                 raw == [i \in 1..Len(input.rows) |-> ToNumeric(input.rows[i].cells[g])]
                 max == MaxOfCells({raw[i] : i \in 1..Len(raw)} \ {NaN})
             IN \A k \in 1..Len(ret.t.rows) :
                   LET r == ret.t.rows[k]
                   IN (IsNull(raw[r.idx + 1]) \/ max = Num(0)) => IsNull(r.cells[g])
    /\ Done("standardise_grades") =>
          \A j \in grade_columns(input) :
              LET max == ColumnMax(input, j)
              IN \A i \in 1..Len(input.rows) :
                    (IsNull(input.rows[i].cells[j]) \/ max = Num(0))
                        => IsNull(df.rows[i].cells[j])
    /\ Done("retrieve_and_standardise_q_column_data") =>
          LET raw == get_column_grade_and_average(input.research_id, df, column)
          IN /\ ret.st = "ok"
             /\ (IsNull(raw.grade) \/ get_max_grade(df, column) = Num(0))
                    => IsNull(ret.grade)


MatrixIds == {df.rows[i].idx : i \in 1..Len(df.rows)}

\* C14 as stated: the ResearchId values of the matrix are exactly the union
\* of the ResearchId values of the input tables, and a Grade_<Test> cell is
\* null exactly when its id is absent from that input table.
C14_NullIffAbsent ==
    Done("create_dataframe") =>
        /\ MatrixIds = UNION {IdsOf(input[TestTableNames[k]]) : k \in 1..6}
        /\ \A i \in 1..Len(df.rows) : \A k \in 1..6 :
              IsNull(df.rows[i].cells[k])
                  <=> df.rows[i].idx \notin IdsOf(input[TestTableNames[k]])

\* C14, amended: the ResearchId values of the matrix, a null one among them,
\* are exactly the union of the ResearchId values of the input tables, each
\* in one row; a Grade_<Test> cell is null exactly when its id is null or
\* absent from that input table, and holds the Grade stored for the id
\* otherwise.
C14_NullIffAbsentOrNullId ==
    Done("create_dataframe") =>
        /\ MatrixIds = UNION {IdsOf(input[TestTableNames[k]]) : k \in 1..6}
        /\ \A i, j \in 1..Len(df.rows) : i # j => df.rows[i].idx # df.rows[j].idx
        /\ \A i \in 1..Len(df.rows) : \A k \in 1..6 :
              LET t == input[TestTableNames[k]]
                  id == df.rows[i].idx
                  cell == df.rows[i].cells[k]
              IN /\ IsNull(cell) <=> (IsNull(id) \/ id \notin IdsOf(t))
                 /\ ~IsNull(cell) =>
                       \E r \in 1..Len(t.rows) : t.rows[r].cells = << id, cell >>

\* a null id is in Test1 and in the matrix, next to an id with a grade
C14_Witness ==
    /\ Done("create_dataframe")
    /\ NaN \in IdsOf(input["Test1"])
    /\ \E i, j \in 1..Len(df.rows) :
          /\ IsNull(df.rows[i].idx) /\ IsNull(df.rows[i].cells[1])
          /\ ~IsNull(df.rows[j].idx) /\ ~IsNull(df.rows[j].cells[1])
          /\ IsNull(df.rows[j].cells[6])

C16_HardworkingList ==
    (Done("generate_hardworking_students_list")
        /\ HasColumn(input.cols, RatingsName)
        /\ HasColumn(input.cols, GradeSumTestName)) =>
        LET in == input.rows
            out == ret.t.rows
            rc == ColIndex(input.cols, RatingsName)
            gc == ColIndex(input.cols, GradeSumTestName)
            Qualifies(r) ==
                /\ r.cells[rc] \in {Str(BelowBeginner), Str(Beginner)}
                /\ r.cells[gc].k = "num" /\ r.cells[gc].v > 60 * r.cells[gc].d
            From(o, r) == o.idx = r.idx /\ o.cells = << r.cells[gc], r.cells[rc] >>
        IN /\ ret.st = "ok"
           /\ ret.t.cols = << GradeSumTestName, RatingsName >>
           /\ \A i \in 1..Len(in) :
                 Qualifies(in[i]) <=> \E k \in 1..Len(out) : From(out[k], in[i])
           /\ \A k \in 1..Len(out) : \E i \in 1..Len(in) : From(out[k], in[i])
           /\ \A k, l \in 1..Len(out) : k # l => out[k].idx # out[l].idx
           /\ \A k, l \in 1..Len(out) :
                 k < l => ~Less(out[k].cells[1], out[l].cells[1])

\* a beginner with exactly 60 is left out and one with more is returned
C16_Witness ==
    /\ Done("generate_hardworking_students_list")
    /\ ret.st = "ok" /\ Len(ret.t.rows) = 1
    /\ \E i \in 1..Len(input.rows) :
          input.rows[i].cells[1] = Str(Beginner) /\ input.rows[i].cells[2] = Num(60)


-----------------------------------------------------------------------------
(* Storing a table: DataFrame.to_sql(name, con, index=False,               *)
(* if_exists='replace') on a sqlite3 connection                            *)

StoreNames == << "Test1", "Sumtest" >>
NameSet == {StoreNames[k] : k \in 1..Len(StoreNames)}

\* what the database holds under a name that has no table
Absent == [exists |-> FALSE, cols |-> << >>, rows |-> << >>]

\* if_exists='replace': DROP TABLE, a statement of its own that SQLite
\* commits at once
drop_table(S, n) == [S EXCEPT ![n] = Absent]

IndexName == << "i","n","d","e","x" >>
execute_create_with_index(S, n, t) ==
    [S EXCEPT ![n] = [exists |-> TRUE, cols |-> << IndexName >> \o t.cols, rows |-> << >>]]

\* CREATE TABLE with the columns of the frame (index=False: the index labels
\* are not a column), committed at once
execute_create(S, n, t) ==
    [S EXCEPT ![n] = [exists |-> TRUE, cols |-> t.cols, rows |-> << >>]]

\* INSERT of all rows in one transaction: the rows go after those the table
\* holds, numbered in that order, with the cells of the frame
insert(S, n, t) ==
    [S EXCEPT ![n].rows =
        @ \o [i \in 1..Len(t.rows) |-> Row(Len(@) + i - 1, t.rows[i].cells)]]

\* processed tables: two rows that kept the labels of a larger input, a row
\* without ResearchId, no row
ProcessedTwoRows ==
    [cols |-> << ResearchIdName, GradeName >>,
     rows |-> << Row(2, << Num(1), Num(80) >>), Row(0, << Num(2), Num(0) >>) >>]
ProcessedNoId ==
    [cols |-> << ResearchIdName, GradeName >>,
     rows |-> << Row(0, << NaN, Num(50) >>) >>]
ProcessedNoRows == [cols |-> << ResearchIdName, GradeName >>, rows |-> << >>]
ProcessedTables == {ProcessedTwoRows, ProcessedNoId, ProcessedNoRows}

\* processed_dataframes: a table for some of the names
Mappings == UNION {[D -> ProcessedTables] : D \in SUBSET NameSet}

\* a table left in the database by an earlier version of the input
OldStored ==
    [exists |-> TRUE,
     cols |-> << ResearchIdName, GradeName, StateName >>,
     rows |-> << Row(0, << Num(3), Num(10), Str(NY) >>) >>]

\* processed_dataframes.items(): the names in the order they were entered
Items(processed) ==
    Pick(StoreNames, {k \in 1..Len(StoreNames) : StoreNames[k] \in DOMAIN processed})

-----------------------------------------------------------------------------
(* The top-level runs *)

Programs ==
    {"DAFunction", "CWPreprocessing", "studentPerformance", "testResults",
     "underperformingStudent", "hardworkingStudents"}

\* the programs that load, process and store the tables
StoringPrograms == {"DAFunction", "CWPreprocessing"}

\* a connection: which object opened it, in which run
Connection(name, round) == [name |-> name, round |-> round]

StartOf(prog, processed, round, S) ==
    [prog |-> prog, pc |-> "start", round |-> round, conn |-> "none",
     processed |-> processed, todo |-> << >>,
     attempts |-> [n \in NameSet |-> 0], failed |-> {}, raised |-> FALSE,
     before |-> S, call_before |-> S]

RunInit ==
    /\ op = "main" /\ pc = "main" /\ ret = NoRet
    /\ column = << >> /\ columns_to_drop = << >>
    /\ input = EmptyTable /\ df = EmptyTable
    /\ store \in [NameSet -> {Absent, OldStored}]
    /\ conns = {}
    /\ \E prog \in Programs, processed \in Mappings :
          /\ prog \notin StoringPrograms => processed = << >>
          /\ run = StartOf(prog, processed, 1, store)

\* where a run goes after its constructor
AfterConstructor(prog) == IF prog \in StoringPrograms THEN "load" ELSE "work"

\* the constructor connects: DAFunction.connect_to_database, and before it
\* sqlite3.connect in testResults.__init__, whose self.conn is its own
Connect ==
    /\ run.pc = "start"
    /\ run.prog \in Programs \ {"hardworkingStudents"}
    /\ conns' = conns \cup
                  (IF run.prog = "testResults"
                   THEN {Connection("results", run.round), Connection("da", run.round)}
                   ELSE {Connection("da", run.round)})
    /\ run' = [run EXCEPT !.pc = AfterConstructor(run.prog),
                          !.conn = IF run.prog = "testResults" THEN "results" ELSE "da"]
    /\ UNCHANGED <<store, callVars>>

\* connect_to_database catches sqlite3.Error and returns None
ConnectReturnsNone ==
    /\ run.pc = "start"
    /\ \/ /\ run.prog \in {"DAFunction", "studentPerformance"}
          /\ run' = [run EXCEPT !.pc = AfterConstructor(run.prog)]
          /\ conns' = conns
       \/ /\ run.prog = "underperformingStudent"
          \* main raises for the missing connection, inside its try
          /\ run' = [run EXCEPT !.pc = "close"]
          /\ conns' = conns
       \/ /\ run.prog = "testResults"
          \* its own connection is open, the one of its DAFunction is not
          /\ run' = [run EXCEPT !.pc = "work", !.conn = "results"]
          /\ conns' = conns \cup {Connection("results", run.round)}
    /\ UNCHANGED <<store, callVars>>

\* the constructor raises, outside any try of main: CWPreprocessing without
\* a connection, testResults when sqlite3.connect fails, hardworkingStudents
\* always (DAFunction.connect_to_database is called without an instance)
ConstructorRaises ==
    /\ run.pc = "start"
    /\ run.prog \in {"CWPreprocessing", "testResults", "hardworkingStudents"}
    /\ run' = [run EXCEPT !.pc = "exit", !.raised = TRUE]
    /\ UNCHANGED <<store, conns, callVars>>

\* load_process_and_rename_data returns the processed tables
Load ==
    /\ run.pc = "load"
    /\ run' = [run EXCEPT !.pc = "transfer", !.todo = Items(run.processed)]
    /\ UNCHANGED <<store, conns, callVars>>

\* where an exception of main's body goes: the except of DAFunction's main
\* reports it and main ends; CWPreprocessing's main has no try
RaiseInMain(r) ==
    [r EXCEPT !.pc = "exit", !.raised = (r.prog = "CWPreprocessing")]

\* load_process_and_rename_data raises (no folder, a file without ResearchId)
LoadRaises ==
    /\ run.pc = "load"
    /\ run' = RaiseInMain(run)
    /\ UNCHANGED <<store, conns, callVars>>

\* transfer_data_to_database: the next table of the loop, inside the try
BeginStore ==
    /\ run.pc = "transfer" /\ run.todo # << >>
    /\ run' = [run EXCEPT !.pc = "drop",
                          !.attempts[Head(run.todo)] = @ + 1,
                          !.call_before = store]
    /\ UNCHANGED <<store, conns, callVars>>

DropTable ==
    /\ run.pc = "drop" /\ run.conn # "none"
    /\ store' = IF store[Head(run.todo)].exists
                THEN drop_table(store, Head(run.todo))
                ELSE store
    /\ run' = [run EXCEPT !.pc = "create"]
    /\ UNCHANGED <<conns, callVars>>

CreateTable ==
    /\ run.pc = "create"
    /\ store' = execute_create(store, Head(run.todo), run.processed[Head(run.todo)])
    /\ run' = [run EXCEPT !.pc = "insert"]
    /\ UNCHANGED <<conns, callVars>>

InsertRows ==
    /\ run.pc = "insert"
    /\ store' = insert(store, Head(run.todo), run.processed[Head(run.todo)])
    /\ run' = [run EXCEPT !.pc = "stored"]
    /\ UNCHANGED <<conns, callVars>>

AfterFailureReturn(todo) == << >>

\* except Exception: the error is printed and the loop goes on
AfterFailure(todo) == Tail(todo)

\* to_sql raises at one of its statements (no connection, a locked or full
\* database, a value that cannot be bound); an INSERT that fails is rolled
\* back, the statements before it stay committed
StoreFails ==
    /\ run.pc \in {"drop", "create", "insert"}
    /\ run' = [run EXCEPT !.pc = "transfer",
                          !.failed = @ \cup {Head(run.todo)},
                          !.todo = AfterFailure(@)]
    /\ UNCHANGED <<store, conns, callVars>>

\* print(f"Transferred data to table {table_name}")
NextTable ==
    /\ run.pc = "stored"
    /\ run' = [run EXCEPT !.pc = "transfer", !.todo = Tail(@)]
    /\ UNCHANGED <<store, conns, callVars>>

TransferReturns ==
    /\ run.pc = "transfer" /\ run.todo = << >>
    /\ run' = [run EXCEPT !.pc = "report"]
    /\ UNCHANGED <<store, conns, callVars>>

\* the table is read back and displayed
Report ==
    /\ run.pc = "report"
    /\ run' = [run EXCEPT !.pc = "close"]
    /\ UNCHANGED <<store, conns, callVars>>

\* display or get_dataframe raises
ReportRaises ==
    /\ run.pc = "report"
    /\ run' = RaiseInMain(run)
    /\ UNCHANGED <<store, conns, callVars>>

\* the body of the try of an analysis program; an exception of it is caught
\* by main (by run) and the finally clause follows
Work ==
    /\ run.pc = "work"
    /\ run' = [run EXCEPT !.pc = "close"]
    /\ UNCHANGED <<store, conns, callVars>>

WorkRaises ==
    /\ run.pc = "work"
    /\ run' = [run EXCEPT !.pc = "close", !.failed = {"work"}]
    /\ UNCHANGED <<store, conns, callVars>>

\* close_connection: if self.conn: self.conn.close()
CloseConnection ==
    /\ run.pc = "close"
    /\ conns' = IF run.conn = "none" THEN conns
                ELSE conns \ {Connection(run.conn, run.round)}
    /\ run' = [run EXCEPT !.pc = "exit", !.conn = "none"]
    /\ UNCHANGED <<store, callVars>>

\* the program is run again on the same input
Restart ==
    /\ run.pc = "exit" /\ run.round < MaxRuns
    /\ run.prog \in StoringPrograms
    /\ run' = StartOf(run.prog, run.processed, run.round + 1, store)
    /\ UNCHANGED <<store, conns, callVars>>

RunNext ==
    \/ Connect
    \/ ConnectReturnsNone
    \/ ConstructorRaises
    \/ Load
    \/ LoadRaises
    \/ BeginStore
    \/ DropTable
    \/ CreateTable
    \/ InsertRows
    \/ StoreFails
    \/ NextTable
    \/ TransferReturns
    \/ Report
    \/ ReportRaises
    \/ Work
    \/ WorkRaises
    \/ CloseConnection
    \/ Restart

RunSpec == RunInit /\ [][RunNext]_vars


-----------------------------------------------------------------------------
(* What the claims about storing and about the runs speak about *)

\* the cells of the rows of a table, in order
CellsOf(t) == [i \in 1..Len(t.rows) |-> t.rows[i].cells]

\* the table under name n holds exactly the rows of t
HoldsRowsOf(S, n, t) ==
    S[n].exists /\ S[n].cols = t.cols /\ CellsOf(S[n]) = CellsOf(t)

\* C17: storing a table under a name is an idempotent create-or-replace:
\* when the store of t under n has returned, n holds exactly the rows of t
\* whatever it held before, the tables under other names are as they were,
\* and storing a table that n already holds leaves the database as it was.
C17_CreateOrReplace ==
    run.pc = "stored" =>
        LET n == Head(run.todo)
            t == run.processed[n]
        IN /\ HoldsRowsOf(store, n, t)
           /\ \A m \in NameSet \ {n} : store[m] = run.call_before[m]
           /\ HoldsRowsOf(run.call_before, n, t) => store = run.call_before

\* the table is stored a second time, over itself, and the first time it
\* replaced another table
C17_Witness ==
    /\ run.pc = "stored" /\ run.round = 2
    /\ run.todo = << "Sumtest" >>
    /\ run.processed["Sumtest"] = ProcessedTwoRows
    /\ run.call_before["Sumtest"] = store["Sumtest"]
    /\ Len(store["Sumtest"].rows) = 2
    /\ store["Test1"] = OldStored

\* C18: when transfer_data_to_database has returned, a store was attempted
\* exactly once for every table of the mapping, whichever stores failed, the
\* failures are those reported, and no exception left the loop.
C18_EveryTableAttemptedOnce ==
    /\ run.pc = "report" =>
          /\ \A n \in NameSet :
                run.attempts[n] = IF n \in DOMAIN run.processed THEN 1 ELSE 0
          /\ run.failed \subseteq DOMAIN run.processed
          /\ \A n \in DOMAIN run.processed \ run.failed :
                HoldsRowsOf(store, n, run.processed[n])
          /\ ~run.raised
    /\ run.pc \in {"transfer", "drop", "create", "insert", "stored"} =>
          /\ ~run.raised
          /\ \A n \in NameSet : run.attempts[n] <= 1

\* the store of the first table failed and the second table is stored
C18_Witness ==
    /\ run.pc = "report"
    /\ run.failed = {"Test1"}
    /\ DOMAIN run.processed = NameSet
    /\ run.attempts["Sumtest"] = 1
    /\ HoldsRowsOf(store, "Sumtest", run.processed["Sumtest"])
    /\ Len(store["Sumtest"].rows) > 0

\* C19: persistence is all-or-nothing for each table: after a run, also one
\* in which a store failed part-way, every table either holds the complete
\* new table or is as it was before the run (its old rows, or absent).
C19_AllOrNothing ==
    (run.pc = "exit" /\ run.prog \in StoringPrograms) =>
        \A n \in NameSet :
            \/ store[n] = run.before[n]
            \/ n \in DOMAIN run.processed
                  /\ HoldsRowsOf(store, n, run.processed[n])

\* C20: when a top-level run has ended, on whatever path, every connection
\* the run opened is closed.
C20_ConnectionsClosed ==
    run.pc = "exit" => \A c \in conns : c.round # run.round

-----------------------------------------------------------------------------
(* The cleaning operations: ties, the columns left alone, the test header *)

\* C23: when several rows of one ResearchId share the maximum Grade,
\* drop_duplicate_research_ids retains the one that comes first in the
\* original row order: no input row with the id and the Grade of a retained
\* row comes before it.
C23_TieKeepsFirst ==
    (/\ Done("drop_duplicate_research_ids")
     /\ ret.st = "ok")
    => \A r \in RowsOf(ret.t), x \in RowsOf(input) :
          (/\ CellOf(input, x, ResearchIdName) = CellOf(ret.t, r, ResearchIdName)
           /\ CellOf(input, x, GradeName) = CellOf(ret.t, r, GradeName))
          => r.idx <= x.idx

\* C24: process_dataframe coerces a column if and only if its cleaned name
\* has 'Grade' in it or starts with 'Q': in the table returned every cell of
\* such a column is the number of the input cell (0.0 when it has none), and
\* every cell of any other column is the cell of the input row it was
\* retained from; the caller's table is left as it was.
C24_OnlyGradeQColumnsCoerced ==
    Done("process_dataframe")
    => /\ df = input
       /\ ret.st = "ok"
          => LET cols == InCols
             IN \A j \in 1..Len(ret.t.cols) :
                   LET name == ret.t.cols[j]
                       ij == ColIndex(cols, name)
                   IN /\ ij # 0
                      /\ \A r \in RowsOf(ret.t) :
                            IF Contains(name, GradeName) \/ StartsWith(name, QPrefix)
                            THEN /\ IsNum(r.cells[j])
                                 /\ r.cells[j] = Coerced(InputRow(r).cells[ij])
                            ELSE r.cells[j] = InputRow(r).cells[ij]

\* process_dataframe returned a row whose grade was '-' and is 0.0, and a
\* row that still has '-' in a column that is neither a grade nor a question
C24_Witness ==
    /\ Done("process_dataframe")
    /\ ret.st = "ok"
    /\ LET cols == InCols
       IN /\ \E r \in RowsOf(ret.t) :
                /\ InputRow(r).cells[ColIndex(cols, GradeName)] = Str(Dash)
                /\ CellOf(ret.t, r, GradeName) = Num(0)
          /\ \E j \in 1..Len(ret.t.cols), r \in RowsOf(ret.t) :
                /\ ~IsGradeQColumn(ret.t.cols[j])
                /\ ret.t.cols[j] # ResearchIdName
                /\ r.cells[j] = Str(Dash)

\* C25: for an input whose columns are named exactly ResearchId, Grade,
\* State and TimeTaken, the columns of the table process_dataframe returns
\* are exactly ResearchId and Grade: no column carries the data of the
\* input's State or TimeTaken column.
C25_StateAndTimeTakenRemoved ==
    (/\ Done("process_dataframe")
     /\ input.cols = << ResearchIdName, GradeName, StateName, TimeTakenName >>)
    => /\ ret.st = "ok"
       /\ ret.t.cols = << ResearchIdName, GradeName >>

-----------------------------------------------------------------------------
(* Which operations change the table they are given *)

DownstreamOps ==
    {"standardise_grade", "replace_nan_with_zero", "convert_grades_to_numeric",
     "standardise_grades", "drop_rows_above_threshold", "sort_dataframe"}

\* the operations that work on a copy or build a new table
CopyingOps == {"standardise_grade", "drop_rows_above_threshold", "sort_dataframe"}

\* t has the header, the number of rows, the order and the index labels of u
SameShape(t, u) ==
    /\ t.cols = u.cols
    /\ Len(t.rows) = Len(u.rows)
    /\ \A i \in 1..Len(t.rows) :
          Len(t.rows[i].cells) = Len(u.rows[i].cells)

\* C22 as claimed: standardise_grade, replace_nan_with_zero,
\* convert_grades_to_numeric, standardise_grades, drop_rows_above_threshold
\* and sort_dataframe each leave the table they are given unchanged: after
\* the call the caller's table has the cells, rows and order it had before.
C22_InputNeverMutated ==
    (pc = "done" /\ op \in DownstreamOps) => df = input

\* C22 amended: standardise_grade, drop_rows_above_threshold and
\* sort_dataframe leave the table they are given unchanged.
\* replace_nan_with_zero, convert_grades_to_numeric and standardise_grades
\* change the given table in place and return that same table: its rows,
\* their order and their labels stay, replace_nan_with_zero turns every
\* missing cell into 0 and keeps every other cell, and the other two change
\* cells of the Grade columns only (convert_grades_to_numeric keeps every
\* number).
C22_InPlaceOrCopy ==
    /\ (pc = "done" /\ op \in CopyingOps) => df = input
    /\ (pc = "done" /\ op \in DownstreamOps \ CopyingOps)
       => /\ ret.st = "ok"
          /\ ret.t = df
          /\ SameShape(df, input)
          /\ \A i \in 1..Len(df.rows) : df.rows[i].idx = input.rows[i].idx
          /\ \A i \in 1..Len(df.rows), j \in 1..Len(df.cols) :
                LET old == input.rows[i].cells[j]
                    new == df.rows[i].cells[j]
                IN CASE op = "replace_nan_with_zero" ->
                          new = (IF old.k = "nan" THEN Num(0) ELSE old)
                     [] op = "convert_grades_to_numeric" ->
                          /\ ~Contains(df.cols[j], GradeName) => new = old
                          /\ old.k = "num" => new = old
                          /\ new.k # "str"
                     [] OTHER ->
                          ~Contains(df.cols[j], GradeName) => new = old

\* replace_nan_with_zero returned the caller's table itself, in which a
\* cell that was missing is now 0
C22_Witness ==
    /\ pc = "done" /\ op = "replace_nan_with_zero"
    /\ ret.st = "ok" /\ ret.t = df
    /\ df # input
    /\ \E i \in 1..Len(df.rows), j \in 1..Len(df.cols) :
          /\ input.rows[i].cells[j] = NaN
          /\ df.rows[i].cells[j] = Num(0)

-----------------------------------------------------------------------------
(* The consolidated matrix is keyed by ResearchId *)

GradePrefix == << "G","r","a","d","e","_" >>
TestNameChars ==
    << << "T","e","s","t","1" >>, << "T","e","s","t","2" >>,
       << "T","e","s","t","3" >>, << "T","e","s","t","4" >>,
       << "M","o","c","k","t","e","s","t" >>, << "S","u","m","t","e","s","t" >> >>

\* no ResearchId twice in any of the tables read
HasUniqueIds(db) ==
    \A k \in 1..Len(TestTableNames) :
        LET t == db[TestTableNames[k]]
        IN Cardinality(IdsOf(t)) = Len(t.rows)

\* C28: when no test table has a ResearchId twice, the matrix
\* create_dataframe returns has exactly one row for each id of the union of
\* the tables' ids, and exactly one column Grade_<TestName> for each of the
\* six test tables.
C28_OneRowPerIdOneColumnPerTest ==
    (Done("create_dataframe") /\ HasUniqueIds(input))
    => LET ids == UNION {IdsOf(input[TestTableNames[k]]) : k \in 1..Len(TestTableNames)}
       IN /\ ret.st = "ok"
          /\ Len(ret.t.rows) = Cardinality(ids)
          /\ \A id \in ids :
                Cardinality({i \in 1..Len(ret.t.rows) : ret.t.rows[i].idx = id}) = 1
          /\ Len(ret.t.cols) = Len(TestTableNames)
          /\ \A k \in 1..Len(TestTableNames) :
                /\ ret.t.cols[k] = GradePrefix \o TestNameChars[k]
                /\ \A i \in 1..Len(ret.t.rows) :
                      Len(ret.t.rows[i].cells) = Len(TestTableNames)

\* an id stored in Test1 and in Sumtest and an id stored in Test3 only have
\* one row each
C28_Witness ==
    /\ Done("create_dataframe")
    /\ HasUniqueIds(input)
    /\ Num(1) \in IdsOf(input["Test1"]) \cap IdsOf(input["Sumtest"])
    /\ Num(2) \in IdsOf(input["Test3"])
    /\ Num(2) \notin IdsOf(input["Test1"]) \cup IdsOf(input["Sumtest"])
    /\ Len(ret.t.rows) = 2
    /\ Len(ret.t.cols) = 6

-----------------------------------------------------------------------------
(* underperformingStudent.main: the steps from the database to the list *)

\* The databases of the pipeline.  Test1, Test2 and Test3 each hold student
\* 9 with grade 100 and, for every student 1..MaxRows, no row, grade 20 or
\* grade 100; Test4 is empty or holds student 1 with grade -5; Mocktest is
\* empty; Sumtest holds every student.
PipelineGrades == {0, 20, 100}      \* 0: the student has no row

PipelineTable(g) ==
    LET present == {i \in 1..MaxRows : g[i] # 0}
        ids == Positions(MaxRows, 1, present)
    IN [cols |-> << ResearchIdName, GradeName >>,
        rows |-> << Row(0, << Num(9), Num(100) >>) >>
                 \o [i \in 1..Len(ids) |->
                       Row(i, << Num(ids[i]), Num(g[ids[i]]) >>)]]

SumtestTable ==
    [cols |-> << ResearchIdName, GradeName >>,
     rows |-> [i \in 1..MaxRows |-> Row(i - 1, << Num(i), Num(50 + i) >>)]]

NegativeTable ==
    [cols |-> << ResearchIdName, GradeName >>,
     rows |-> << Row(0, << Num(1), Num(-5) >>) >>]

IsPipelineDatabase(db) ==
    \E a \in [1..MaxRows -> PipelineGrades],
       b \in [1..MaxRows -> PipelineGrades],
       c \in [1..MaxRows -> PipelineGrades],
       d \in {StoredTestTable(0, << >>), NegativeTable} :
        db = [n \in {TestTableNames[k] : k \in 1..Len(TestTableNames)} |->
                CASE n = "Test1" -> PipelineTable(a)
                  [] n = "Test2" -> PipelineTable(b)
                  [] n = "Test3" -> PipelineTable(c)
                  [] n = "Test4" -> d
                  [] n = "Sumtest" -> SumtestTable
                  [] OTHER -> StoredTestTable(0, << >>)]

\* main has connected; df is the name df of main, input the database
PipelineInit ==
    /\ StorageIdle
    /\ op = "main"
    /\ pc = "create_dataframe"
    /\ column = << >>
    /\ columns_to_drop = << >>
    /\ ret = NoRet
    /\ df = EmptyTable
    /\ IsPipelineDatabase(input)

MainStep(from, to, t) ==
    /\ op = "main" /\ pc = from
    /\ df' = t
    /\ pc' = to
    /\ UNCHANGED <<op, column, input, columns_to_drop, ret>>
    /\ UNCHANGED storageVars

\* df = student_analysis.create_dataframe()
MainCreateDataframe ==
    MainStep("create_dataframe", "replace_nan_with_zero", create_dataframe(input))

\* df = student_analysis.replace_nan_with_zero(df)
MainReplaceNanWithZero ==
    MainStep("replace_nan_with_zero", "convert_grades_to_numeric",
             replace_nan_with_zero(df))

\* df = student_analysis.convert_grades_to_numeric(df)
MainConvertGradesToNumeric ==
    MainStep("convert_grades_to_numeric", "standardise_grades",
             convert_grades_to_numeric(df))

\* df = student_analysis.standardise_grades(df)
MainStandardiseGrades ==
    MainStep("standardise_grades", "drop_rows_above_threshold",
             standardise_grades(df))

\* df = student_analysis.drop_rows_above_threshold(df)
MainDropRowsAboveThreshold ==
    MainStep("drop_rows_above_threshold", "sort_dataframe",
             drop_rows_above_threshold(df))

\* df = student_analysis.sort_dataframe(df); the list is then displayed
MainSortDataframe ==
    /\ op = "main" /\ pc = "sort_dataframe"
    /\ \E o \in sort_dataframe(df) :
          /\ df' = IF o.st = "ok" THEN o.t ELSE df
          /\ ret' = IF o.st = "ok" THEN Returned(o.t) ELSE Raised
    /\ pc' = "done"
    /\ UNCHANGED <<op, column, input, columns_to_drop>>
    /\ UNCHANGED storageVars

PipelineNext ==
    \/ MainCreateDataframe
    \/ MainReplaceNanWithZero
    \/ MainConvertGradesToNumeric
    \/ MainStandardiseGrades
    \/ MainDropRowsAboveThreshold
    \/ MainSortDataframe

PipelineSpec == PipelineInit /\ [][PipelineNext]_vars

\* the student of a row appears in the k-th test table of the database
AppearsIn(r, k) == r.idx \in IdsOf(input[TestTableNames[k]])

InLowRange(c) == c.k = "num" /\ c.v >= c.d /\ c.v <= 49 * c.d

-----------------------------------------------------------------------------
(* studentPerformance on any table of the database *)

QueryInit ==
    /\ StorageIdle
    /\ pc = "call"
    /\ ret = NoRet
    /\ columns_to_drop = << >>
    /\ op \in {"get_column_grade_and_average",
               "retrieve_and_standardise_q_column_data"}
    /\ column = QOneColumn
    /\ \/ IsAnyQTable(df)
       \/ df = TestTable1
    /\ \E research_id \in ResearchIds : input = Lookup(research_id, df)

QueryNext ==
    \/ GetColumnGradeAndAverage
    \/ RetrieveAndStandardiseQColumnData

QuerySpec == QueryInit /\ [][QueryNext]_vars

\* the cells of the column asked for, in row order
QColumnCells == [i \in 1..Len(df.rows) |-> CellOf(df, df.rows[i], column)]

\* the first record of the id asked for, 0 when there is none
FirstRecord ==
    LET ic == ColIndex(df.cols, ResearchIdName)
        found == {i \in 1..Len(df.rows) :
                     df.rows[i].cells[ic] = Num(input.research_id)}
    IN IF found = {} THEN 0 ELSE CHOOSE i \in found : \A k \in found : i <= k

\* C26: the average get_column_grade_and_average returns is the arithmetic
\* mean over the non-null numeric cells of the column only: null cells and
\* cells holding non-numeric text are in neither the sum nor the count.
C26_AverageOverNumericCellsOnly ==
    (Done("get_column_grade_and_average") /\ ret.st = "ok" /\ FirstRecord # 0)
    => LET cells == QColumnCells
           numeric == Positions(Len(cells), 1,
                                {i \in 1..Len(cells) : IsValidGrade(cells[i])})
           values == [i \in 1..Len(numeric) |-> Num(GradeValue(cells[numeric[i]]))]
           sum == SumCells(values)
       IN /\ Len(values) > 0
          /\ IsNum(ret.average)
          /\ ret.average.v * sum.d * Len(values) = sum.v * ret.average.d

\* what CAST(x AS REAL) makes of a cell that is not NULL: its number, and 0.0
\* for a text that is no number
CastValue(c) == IF IsValidGrade(c) THEN GradeValue(c) ELSE 0

\* C27: retrieve_and_standardise_q_column_data never raises.  It returns
\* (null, null) when no record has the id and when a step fails (the value
\* of the record is NULL or no number).  Otherwise it returns
\* (value / max * 100, average / max * 100), where max is the largest value
\* of the column, nulls ignored: numbers when max is not 0, and the floats
\* that a division by zero gives when it is.
C27_StandardisedOrNullNeverRaises ==
    Done("retrieve_and_standardise_q_column_data")
    => LET cells == QColumnCells
           first == FirstRecord
           present == Positions(Len(cells), 1,
                                {i \in 1..Len(cells) : ~IsNull(cells[i])})
           values == [i \in 1..Len(present) |-> Num(CastValue(cells[present[i]]))]
           sum == SumCells(values)
           max == CHOOSE m \in {values[i].v : i \in 1..Len(values)} \cup {-1} :
                     \A i \in 1..Len(values) : values[i].v <= m
       IN /\ ret.st = "ok"
          /\ first = 0 => ret = NonePair
          /\ (first # 0 /\ ~IsValidGrade(cells[first])) => ret = NonePair
          /\ (first # 0 /\ IsValidGrade(cells[first]))
             => LET value == GradeValue(cells[first])
                IN IF max # 0
                   THEN /\ IsNum(ret.grade) /\ IsNum(ret.average)
                        /\ ret.grade.v * max = value * 100 * ret.grade.d
                        /\ ret.average.v * max * sum.d * Len(values)
                              = sum.v * 100 * ret.average.d
                   ELSE /\ ret.grade.k \in {"nan", "pinf", "ninf"}
                        /\ ret.average.k \in {"nan", "pinf", "ninf"}

\* the record of the id holds the text '60' in a column whose largest value
\* is 80: the standardised value is 75
C27_Witness ==
    /\ Done("retrieve_and_standardise_q_column_data")
    /\ FirstRecord # 0
    /\ QColumnCells[FirstRecord] = Str(Sixty)
    /\ \E i \in 1..Len(df.rows) : QColumnCells[i] = Num(80)
    /\ ret.grade = Num(75)

-----------------------------------------------------------------------------
(* load_csv_files_from_folder and load_process_and_rename_data *)

MaxFiles == 2       \* most files of the folder

CsvSuffix == << ".","c","s","v" >>

\* str.endswith
EndsWith(s, suf) ==
    Len(s) >= Len(suf) /\ SubSeq(s, Len(s) - Len(suf) + 1, Len(s)) = suf

\* str.replace(sub, ''): every occurrence of sub, from the left, is removed
RECURSIVE RemoveAll(_, _)
RemoveAll(s, sub) ==
    IF Len(s) = 0 THEN << >>
    ELSE IF StartsWith(s, sub)
         THEN RemoveAll(SubSeq(s, Len(sub) + 1, Len(s)), sub)
         ELSE << s[1] >> \o RemoveAll(Tail(s), sub)

\* the class attribute table_name_mapping: pairs of key and value
table_name_mapping ==
    << << << "F","o","r","m","a","t","i","v","e","_","T","e","s","t","_","1",".","c","s","v" >>,
          << "T","e","s","t","1" >> >>,
       << << "F","o","r","m","a","t","i","v","e","_","T","e","s","t","_","2",".","c","s","v" >>,
          << "T","e","s","t","2" >> >>,
       << << "F","o","r","m","a","t","i","v","e","_","T","e","s","t","_","3",".","c","s","v" >>,
          << "T","e","s","t","3" >> >>,
       << << "F","o","r","m","a","t","i","v","e","_","T","e","s","t","_","4",".","c","s","v" >>,
          << "T","e","s","t","4" >> >>,
       << << "F","o","r","m","a","t","i","v","e","_","M","o","c","k","_","T","e","s","t",".","c","s","v" >>,
          << "M","o","c","k","t","e","s","t" >> >>,
       << << "S","u","m","T","e","s","t",".","c","s","v" >>,
          << "S","u","m","t","e","s","t" >> >> >>

\* dict.get(key, default) on table_name_mapping
MappingGet(key, default) ==
    IF \E i \in 1..Len(table_name_mapping) : table_name_mapping[i][1] = key
    THEN table_name_mapping[CHOOSE i \in 1..Len(table_name_mapping) :
                                table_name_mapping[i][1] = key][2]
    ELSE default

SourceNameAsDestination(file_name) == file_name

\* new_table_name = table_name_mapping.get(file_name + '.csv', file_name)
new_table_name(file_name) == MappingGet(file_name \o CsvSuffix, file_name)

StudentRateFile == << "S","t","u","d","e","n","t","R","a","t","e",".","c","s","v" >>
BadFile == << "b","a","d",".","c","s","v" >>
exclude_files == {StudentRateFile}

\* the files a folder may hold: the six exports, files whose names meet
\* theirs after the mapping, the ratings file, a file that is no CSV file,
\* and a CSV file without a Grade column
FilePool ==
    << << "F","o","r","m","a","t","i","v","e","_","T","e","s","t","_","1",".","c","s","v" >>,
       << "F","o","r","m","a","t","i","v","e","_","T","e","s","t","_","2",".","c","s","v" >>,
       << "F","o","r","m","a","t","i","v","e","_","T","e","s","t","_","3",".","c","s","v" >>,
       << "F","o","r","m","a","t","i","v","e","_","T","e","s","t","_","4",".","c","s","v" >>,
       << "F","o","r","m","a","t","i","v","e","_","M","o","c","k","_","T","e","s","t",".","c","s","v" >>,
       << "S","u","m","T","e","s","t",".","c","s","v" >>,
       << "T","e","s","t","1",".","c","s","v" >>,
       << "S","u","m","t","e","s","t",".","c","s","v" >>,
       << "S","t","u","d","e","n","t","R","a","t","e",".","c","s","v" >>,
       << "n","o","t","e","s",".","t","x","t" >>,
       << "a",".","c","s","v" >>,
       << "a",".","c","s","v",".","c","s","v" >>,
       << "b","a","d",".","c","s","v" >> >>

\* pd.read_csv(file_path): the table of the k-th file of the pool
FileTable(name) ==
    LET k == CHOOSE i \in 1..Len(FilePool) : FilePool[i] = name
    IN IF name = BadFile
       THEN [cols |-> << ResearchIdName >>, rows |-> << Row(0, << Num(k) >>) >>]
       ELSE [cols |-> << ResearchIdName, GradeSlashName >>,
             rows |-> << Row(0, << Num(k), Str(Sixty) >>),
                         Row(1, << Num(k), Num(80) >>) >>]

\* os.listdir(folder_path): the distinct file names of the folder, in the
\* order the file system gives them
Listings ==
    {l \in UNION {[1..n -> 1..Len(FilePool)] : n \in 0..MaxFiles} :
        \A i, j \in 1..Len(l) : i # j => l[i] # l[j]}

\* A dict: its keys in insertion order and the value of each key.  Setting
\* a key that is there keeps its place.
EmptyDict == [keys |-> << >>, val |-> << >>]
DictSet(dict, key, value) ==
    [keys |-> IF key \in DOMAIN dict.val THEN dict.keys ELSE Append(dict.keys, key),
     val |-> [x \in DOMAIN dict.val \cup {key} |->
                IF x = key THEN value ELSE dict.val[x]]]

LoadInit ==
    /\ op = "load_process_and_rename_data"
    /\ pc = "call"
    /\ column = << >>
    /\ columns_to_drop = << >>
    /\ df = EmptyTable
    /\ input = EmptyTable
    /\ ret = NoRet
    /\ store = << >>
    /\ conns = {}
    /\ \E l \in Listings :
          run = [prog |-> "load", pc |-> "listdir",
                 listing |-> [i \in 1..Len(l) |-> FilePool[l[i]]],
                 at |-> 1,
                 original |-> EmptyDict,
                 todo |-> << >>,
                 processed |-> EmptyDict,
                 stored |-> << >>]

LoadStep(r) ==
    /\ run.prog = "load"
    /\ run' = r
    /\ UNCHANGED <<callVars, store, conns>>

\* one turn of the loop of load_csv_files_from_folder
ReadCsvFile ==
    /\ run.pc = "listdir" /\ run.at <= Len(run.listing)
    /\ LET file_name == run.listing[run.at]
       IN /\ EndsWith(file_name, CsvSuffix)
          /\ file_name \notin exclude_files
          /\ LoadStep([run EXCEPT
                !.at = @ + 1,
                !.original = DictSet(@, RemoveAll(file_name, CsvSuffix),
                                     FileTable(file_name))])

\* a file that is no CSV file or is excluded is passed over
SkipFile ==
    /\ run.pc = "listdir" /\ run.at <= Len(run.listing)
    /\ LET file_name == run.listing[run.at]
       IN /\ ~EndsWith(file_name, CsvSuffix) \/ file_name \in exclude_files
          /\ LoadStep([run EXCEPT !.at = @ + 1])

\* load_csv_files_from_folder returns: for file_name, df in
\* original_dataframes.items()
BeginProcessing ==
    /\ run.pc = "listdir" /\ run.at > Len(run.listing)
    /\ LoadStep([run EXCEPT !.pc = "process", !.todo = run.original.keys])

\* one turn of the loop of load_process_and_rename_data; `stored` notes the
\* source and destination name of each assignment
ProcessFile ==
    /\ run.pc = "process" /\ run.todo # << >>
    /\ LET file_name == Head(run.todo)
           dest == new_table_name(file_name)
       IN \E o \in process_dataframe(run.original.val[file_name]) :
             /\ o.st = "ok"
             /\ LoadStep([run EXCEPT
                   !.todo = Tail(@),
                   !.processed = DictSet(@, dest, o.t),
                   !.stored = Append(@, [src |-> file_name, dest |-> dest])])

\* process_dataframe raises and nothing catches it
ProcessFileRaises ==
    /\ run.pc = "process" /\ run.todo # << >>
    /\ \E o \in process_dataframe(run.original.val[Head(run.todo)]) :
          o.st = "error"
    /\ LoadStep([run EXCEPT !.pc = "raised"])

\* return original_dataframes, processed_dataframes
LoadReturns ==
    /\ run.pc = "process" /\ run.todo = << >>
    /\ LoadStep([run EXCEPT !.pc = "returned"])

LoadNext ==
    \/ ReadCsvFile
    \/ SkipFile
    \/ BeginProcessing
    \/ ProcessFile
    \/ ProcessFileRaises
    \/ LoadReturns

LoadSpec == LoadInit /\ [][LoadNext]_vars

\* the destination the fixed table gives a source name
ExpectedDestination(src) ==
    CASE src = << "F","o","r","m","a","t","i","v","e","_","T","e","s","t","_","1" >>
           -> << "T","e","s","t","1" >>
      [] src = << "F","o","r","m","a","t","i","v","e","_","T","e","s","t","_","2" >>
           -> << "T","e","s","t","2" >>
      [] src = << "F","o","r","m","a","t","i","v","e","_","T","e","s","t","_","3" >>
           -> << "T","e","s","t","3" >>
      [] src = << "F","o","r","m","a","t","i","v","e","_","T","e","s","t","_","4" >>
           -> << "T","e","s","t","4" >>
      [] src = << "F","o","r","m","a","t","i","v","e","_","M","o","c","k","_","T","e","s","t" >>
           -> << "M","o","c","k","t","e","s","t" >>
      [] src = << "S","u","m","T","e","s","t" >>
           -> << "S","u","m","t","e","s","t" >>
      [] OTHER -> src

\* C21: load_process_and_rename_data stores each processed table under the
\* destination name of the fixed mapping (Formative_Test_1 -> Test1,
\* Formative_Test_2 -> Test2, Formative_Test_3 -> Test3, Formative_Test_4 ->
\* Test4, Formative_Mock_Test -> Mocktest, SumTest -> Sumtest), and under
\* the source name itself when the source name is not in the mapping: every
\* assignment made has that destination, and right after it the processed
\* mapping holds, under that name, the processed table of the source.
C21_StoredUnderMappedName ==
    run.prog = "load" =>
        /\ \A i \in 1..Len(run.stored) :
              run.stored[i].dest = ExpectedDestination(run.stored[i].src)
        /\ Len(run.stored) > 0 =>
              LET last == run.stored[Len(run.stored)]
              IN /\ last.dest \in DOMAIN run.processed.val
                 /\ [st |-> "ok", t |-> run.processed.val[last.dest]]
                       \in process_dataframe(run.original.val[last.src])
        /\ \A name \in DOMAIN run.processed.val :
              \E i \in 1..Len(run.stored) : run.stored[i].dest = name

\* a folder with Formative_Test_1.csv and a.csv has been loaded: the tables
\* are stored under Test1 and a
C21_Witness ==
    /\ run.prog = "load" /\ run.pc = "returned"
    /\ DOMAIN run.original.val
          = {<< "F","o","r","m","a","t","i","v","e","_","T","e","s","t","_","1" >>,
             << "a" >>}
    /\ DOMAIN run.processed.val = {<< "T","e","s","t","1" >>, << "a" >>}

\* C30: load_process_and_rename_data never lets one processed table
\* overwrite another: when it returns, the destination names of the loaded
\* source names are pairwise distinct and the processed mapping has as many
\* tables as the original mapping.
C30_NoTableOverwritten ==
    (run.prog = "load" /\ run.pc = "returned")
    => /\ \A a, b \in DOMAIN run.original.val :
             a # b => ExpectedDestination(a) # ExpectedDestination(b)
       /\ Cardinality(DOMAIN run.processed.val)
             = Cardinality(DOMAIN run.original.val)

====
